---- MODULE Spec2Model ----
(***************************************************************************)
(* wallet-tracker: the wallet-matching engine.                             *)
(*                                                                         *)
(*   matcher.py        WalletMatcher.find_candidates,                      *)
(*                     WalletMatcher.verify_with_second_holding            *)
(*   api/helius.py     HeliusClient.rpc_request, get_token_accounts,       *)
(*                     get_all_holders, get_token_supply                   *)
(*   token_resolver.py TokenResolver.search_by_ticker,                     *)
(*                     get_by_mint_address, disambiguate_by_market_cap,    *)
(*                     resolve                                             *)
(*   models.py         TokenInfo, HoldingQuery, WalletMatch, SearchResult, *)
(*                     VerificationResult                                  *)
(*                                                                         *)
(* The program is sequential: one request is a pipeline of blocking calls. *)
(* A handler is one action; a loop whose iterations a property is about    *)
(* (the pagination of get_all_holders) is also run one iteration at a      *)
(* time, by the same loop body the handler iterates.                       *)
(*                                                                         *)
(* Python floats are binary floating-point numbers, rounded to nearest     *)
(* (ties to even) after every operation.  They are modelled as such, with  *)
(* a mantissa of Precision bits instead of 53 and no exponent limit.       *)
(***************************************************************************)
EXTENDS Integers, Sequences, FiniteSets, TLC

(***************************************************************************)
(* Bounds of the model.                                                    *)
(***************************************************************************)
\* Mantissa width of the modelled floats (53 in the build).
Precision == 4
\* Most token accounts the ledger provider holds for one mint.
MaxAccounts == 2
\* Most pairs in a response of the market-data provider.
MaxPairs == 3
\* Most candidates disambiguate_by_market_cap is called with.
MaxCandidates == 3
\* The largest max_pages get_all_holders is called with.
MaxPagesTried == 3

(***************************************************************************)
(* Program constants.                                                      *)
(***************************************************************************)
\* helius.py:105-109 asks for pages of 1000 records.  Only "full", "short"
\* and "empty" pages matter to the code, so the page size is scaled to 2.
PageLimit == 2
\* helius.py:89, max_pages: int = 50, scaled like the page size.
DefaultMaxPages == 2
\* matcher.py:75, supply_info.get("decimals", 9).
DefaultDecimals == 9

\* Python's None where an object, a dict or a list is expected (an empty
\* dict and an empty list are this value too: the code only tests them for
\* truth), and where a string is expected.
None == <<>>

NoneStr == "None"

\* The truth value of an optional string.
Truthy(s) == s # NoneStr /\ s # ""

(***************************************************************************)
(* Integer helpers.                                                        *)
(***************************************************************************)
RECURSIVE Pow(_, _)
Pow(b, k) == IF k = 0 THEN 1 ELSE b * Pow(b, k - 1)

Abs(i) == IF i < 0 THEN -i ELSE i

Min(a, b) == IF a <= b THEN a ELSE b


\* Number of bits of a natural number: 2^(BitLen(m)-1) <= m < 2^BitLen(m).
RECURSIVE BitLen(_)
BitLen(m) == IF m = 0 THEN 0 ELSE 1 + BitLen(m \div 2)

(***************************************************************************)
(* Floats.  A float is <<m, e>>, the number m * 2^e, kept canonical: m is  *)
(* odd, or the float is <<0, 0>>.  |m| < 2^Precision.                      *)
(***************************************************************************)
RECURSIVE Canon(_, _)
Canon(m, e) ==
    IF m = 0 THEN <<0, 0>>
    ELSE IF m % 2 = 0 THEN Canon(m \div 2, e + 1)
    ELSE <<m, e>>

Zero == <<0, 0>>

\* x * 2^k, exact.
Shift(x, k) == IF x[1] = 0 THEN Zero ELSE <<x[1], x[2] + k>>

\* The integer nearest n/d, ties to even (n >= 0, d > 0).
RoundHalfEven(n, d) ==
    LET q == n \div d
        r == n % d
    IN  IF 2 * r < d THEN q
        ELSE IF 2 * r > d THEN q + 1
        ELSE IF q % 2 = 0 THEN q ELSE q + 1

\* The float nearest the rational n/d (n >= 0, d > 0): what a single
\* correctly rounded operation returns.
RECURSIVE RoundRatio(_, _)
RoundRatio(n, d) ==
    IF n = 0 THEN Zero
    ELSE IF n >= d * Pow(2, Precision) THEN Shift(RoundRatio(n, 2 * d), 1)
    ELSE IF n < d * Pow(2, Precision - 1) THEN Shift(RoundRatio(2 * n, d), -1)
    ELSE Canon(RoundHalfEven(n, d), 0)

\* float(k) for a natural number k.
FromInt(k) == RoundRatio(k, 1)

\* Position of the leading bit: 2^(Top(x)-1) <= x < 2^Top(x), for x > 0.
Top(x) == x[2] + BitLen(x[1])

\* x <= y, for floats x, y >= 0.
FLe(x, y) ==
    IF x[1] = 0 THEN TRUE
    ELSE IF y[1] = 0 THEN FALSE
    ELSE IF Top(x) # Top(y) THEN Top(x) < Top(y)
    ELSE LET lo == Min(x[2], y[2])
         IN  x[1] * Pow(2, x[2] - lo) <= y[1] * Pow(2, y[2] - lo)

\* Whether y is below a quarter of the last place of x (x, y > 0): then
\* both x + y and x - y round to x.
Negligible(y, x) == Top(y) <= Top(x) - Precision - 2

\* x + y in floating point, for floats x, y >= 0.
FAdd(x, y) ==
    IF x[1] = 0 THEN y
    ELSE IF y[1] = 0 THEN x
    ELSE IF Negligible(y, x) THEN x
    ELSE IF Negligible(x, y) THEN y
    ELSE LET lo == Min(x[2], y[2])
             s  == x[1] * Pow(2, x[2] - lo) + y[1] * Pow(2, y[2] - lo)
         IN  Shift(RoundRatio(s, 1), lo)

\* abs(x - y) in floating point, for floats x, y >= 0 (the subtraction
\* rounds symmetrically, so abs(fl(x - y)) = fl(|x - y|)).
FAbsDiff(x, y) ==
    IF x[1] = 0 THEN y
    ELSE IF y[1] = 0 THEN x
    ELSE IF Negligible(y, x) THEN x
    ELSE IF Negligible(x, y) THEN y
    ELSE LET lo == Min(x[2], y[2])
             s  == x[1] * Pow(2, x[2] - lo) - y[1] * Pow(2, y[2] - lo)
         IN  Shift(RoundRatio(Abs(s), 1), lo)

\* x / y in floating point, for floats x >= 0, y > 0.
FDiv(x, y) == Shift(RoundRatio(x[1], y[1]), x[2] - y[2])

\* Floats of either sign: -x, and x <= y.
FNeg(x) == <<0 - x[1], x[2]>>

FLeSigned(x, y) ==
    IF x[1] < 0
    THEN IF y[1] < 0 THEN FLe(FNeg(y), FNeg(x)) ELSE TRUE
    ELSE IF y[1] < 0 THEN FALSE ELSE FLe(x, y)

\* raw / (10 ** decimals): Python's int / int is the correctly rounded
\* quotient.  10^k = 5^k * 2^k, and the power of two is exact.
IntTrueDiv(raw, decimals) == Shift(RoundRatio(raw, Pow(5, decimals)), -decimals)

(***************************************************************************)
(* models.py                                                               *)
(***************************************************************************)
\* models.py:19 and models.py:68, decimals: int = 9.
DataclassDecimals == 9

\* str.upper() on the symbols and tickers of the model.
Upper(s) ==
    CASE s = "bonk"  -> "BONK"
      [] s = "Bonk"  -> "BONK"
      [] s = "bonk2" -> "BONK2"
      [] OTHER       -> s

\* TokenInfo.from_dexscreener.  A pair is a raw DexScreener record
\* [chainId, address, symbol, liquidity, marketCap, fdv]; address and symbol
\* are those of its baseToken, "" when the field is missing.
FromDexscreener(pair) ==
    [mint_address  |-> pair.address,
     symbol        |-> pair.symbol,
     liquidity_usd |-> pair.liquidity,
     market_cap    |-> pair.marketCap,
     fdv           |-> pair.fdv,
     supply        |-> 0,
     decimals      |-> DataclassDecimals]

\* HoldingQuery(ticker, token_amount, mint_address = None).
HoldingQuery(ticker, token_amount, mint_address) ==
    [ticker       |-> ticker,
     token_amount |-> token_amount,
     mint_address |-> mint_address,
     decimals     |-> DataclassDecimals]

\* WalletMatch(address) followed by add_holding(mint, amount): holdings is
\* the dict {mint: amount}.
WalletMatch(address, mint, amount) ==
    [address |-> address, holdings |-> (mint :> amount)]

\* SearchResult; total_holders_scanned defaults to 0.
SearchResult(query, token_info, candidates, total_holders_scanned) ==
    [query                 |-> query,
     token_info            |-> token_info,
     candidates            |-> candidates,
     total_holders_scanned |-> total_holders_scanned]

(***************************************************************************)
(* api/dexscreener.py                                                      *)
(***************************************************************************)
\* DexScreenerClient.search_solana_tokens: the pairs of the search response
\* that are on Solana.
SearchSolanaTokens(pairs) == SelectSeq(pairs, LAMBDA p : p.chainId = "solana")

\* sorted(pairs, key = liquidity, reverse = True)[0]: Python's sort is
\* stable, so this is the first pair of the highest liquidity.
RECURSIVE MostLiquid(_, _)
MostLiquid(pairs, best) ==
    IF pairs = <<>> THEN best
    ELSE MostLiquid(Tail(pairs),
                    IF Head(pairs).liquidity > best.liquidity
                    THEN Head(pairs) ELSE best)

\* DexScreenerClient.get_token_by_address, on the response of
\* get_token_pairs.
GetTokenByAddress(pairs) ==
    IF pairs = <<>> THEN None ELSE MostLiquid(Tail(pairs), Head(pairs))

(***************************************************************************)
(* token_resolver.py                                                       *)
(***************************************************************************)
\* Index of the token of mint `mint` in a sequence of tokens, 0 if none.
RECURSIVE IndexOfMint(_, _, _)
IndexOfMint(tokens, mint, i) ==
    IF i > Len(tokens) THEN 0
    ELSE IF tokens[i].mint_address = mint THEN i
    ELSE IndexOfMint(tokens, mint, i + 1)

\* A loop that takes every pair whose symbol contains the ticker.
RECURSIVE GroupByMintContaining(_, _, _)
GroupByMintContaining(pairs, ticker, tokens_by_mint) ==
    IF pairs = <<>> THEN tokens_by_mint
    ELSE LET pair == Head(pairs)
             at   == IndexOfMint(tokens_by_mint, pair.address, 1)
             next ==
                 IF pair.address = "" THEN tokens_by_mint
                 ELSE IF Upper(pair.symbol)
                         \notin {Upper(ticker), Upper(ticker) \o "2",
                                 "X" \o Upper(ticker)}
                      THEN tokens_by_mint
                 ELSE IF at = 0
                      THEN Append(tokens_by_mint, FromDexscreener(pair))
                 ELSE IF pair.liquidity > tokens_by_mint[at].liquidity_usd
                      THEN [tokens_by_mint EXCEPT ![at] = FromDexscreener(pair)]
                 ELSE tokens_by_mint
         IN  GroupByMintContaining(Tail(pairs), ticker, next)

\* A loop that replaces the token of a mint by a pair as liquid as it.
RECURSIVE GroupByMintLatest(_, _, _)
GroupByMintLatest(pairs, ticker, tokens_by_mint) ==
    IF pairs = <<>> THEN tokens_by_mint
    ELSE LET pair == Head(pairs)
             at   == IndexOfMint(tokens_by_mint, pair.address, 1)
             next ==
                 IF pair.address = "" THEN tokens_by_mint
                 ELSE IF Upper(pair.symbol) # Upper(ticker) THEN tokens_by_mint
                 ELSE IF at = 0
                      THEN Append(tokens_by_mint, FromDexscreener(pair))
                 ELSE IF pair.liquidity >= tokens_by_mint[at].liquidity_usd
                      THEN [tokens_by_mint EXCEPT ![at] = FromDexscreener(pair)]
                 ELSE tokens_by_mint
         IN  GroupByMintLatest(Tail(pairs), ticker, next)

\* The loop of search_by_ticker over the pairs; tokens_by_mint is a dict,
\* kept here as the sequence of its values in insertion order.
RECURSIVE GroupByMint(_, _, _)
GroupByMint(pairs, ticker, tokens_by_mint) ==
    IF pairs = <<>> THEN tokens_by_mint
    ELSE LET pair == Head(pairs)
             at   == IndexOfMint(tokens_by_mint, pair.address, 1)
             next ==
                 IF pair.address = "" THEN tokens_by_mint
                 ELSE IF Upper(pair.symbol) # Upper(ticker) THEN tokens_by_mint
                 ELSE IF at = 0
                      THEN Append(tokens_by_mint, FromDexscreener(pair))
                 ELSE IF pair.liquidity > tokens_by_mint[at].liquidity_usd
                      THEN [tokens_by_mint EXCEPT ![at] = FromDexscreener(pair)]
                 ELSE tokens_by_mint
         IN  GroupByMint(Tail(pairs), ticker, next)

\* An insertion that puts t before the tokens that are as liquid as it.
RECURSIVE InsertBeforeEquals(_, _)
InsertBeforeEquals(sorted, t) ==
    IF sorted = <<>> THEN <<t>>
    ELSE IF Head(sorted).liquidity_usd > t.liquidity_usd
         THEN <<Head(sorted)>> \o InsertBeforeEquals(Tail(sorted), t)
    ELSE <<t>> \o sorted

\* Insert t into a sequence sorted by liquidity, descending, after every
\* token that is at least as liquid.
RECURSIVE InsertByLiquidity(_, _)
InsertByLiquidity(sorted, t) ==
    IF sorted = <<>> THEN <<t>>
    ELSE IF Head(sorted).liquidity_usd >= t.liquidity_usd
         THEN <<Head(sorted)>> \o InsertByLiquidity(Tail(sorted), t)
    ELSE <<t>> \o sorted

\* tokens.sort(key = liquidity_usd, reverse = True): stable.
RECURSIVE SortByLiquidity(_, _)
SortByLiquidity(tokens, sorted) ==
    IF tokens = <<>> THEN sorted
    ELSE SortByLiquidity(Tail(tokens), InsertByLiquidity(sorted, Head(tokens)))

\* TokenResolver.search_by_ticker, on the response of the search endpoint.
SearchByTicker(pairs, ticker) ==
    LET solana == SearchSolanaTokens(pairs)
    IN  IF solana = <<>> THEN <<>>
        ELSE SortByLiquidity(GroupByMint(solana, ticker, <<>>), <<>>)

\* An enrichment that lets the failure of the supply lookup through.
EnrichSupplyPropagates(token, rpcSupply) ==
    IF rpcSupply.raised THEN [raised |-> "APIError"]
    ELSE [token EXCEPT !.supply = rpcSupply.value]

\* The try/except around rpc_client.get_token_supply_ui: rpcSupply is
\* [raised, value], the supply the Solana RPC reports or its failure.
EnrichSupply(token, rpcSupply) ==
    IF rpcSupply.raised THEN token
    ELSE [token EXCEPT !.supply = rpcSupply.value]

\* TokenResolver.get_by_mint_address, on the response of get_token_pairs.
GetByMintAddress(pairs, rpcSupply) ==
    LET pair_data == GetTokenByAddress(pairs)
    IN  IF pair_data = None THEN None
        ELSE EnrichSupply(FromDexscreener(pair_data), rpcSupply)

\* token.market_cap or token.fdv
McapOrFdv(token) == IF token.market_cap # 0 THEN token.market_cap ELSE token.fdv

\* An exception in place of a returned value.
Raised(exception) == [raised |-> exception]

IsRaised(value) == value # None /\ "raised" \in DOMAIN value

\* abs(mcap - target_market_cap) / target_market_cap for mcap > 0 and a
\* target other than zero.
Deviation(mcap, target) ==
    IF target[1] > 0
    THEN FDiv(FAbsDiff(FromInt(mcap), target), target)
    ELSE FNeg(FDiv(FAdd(FromInt(mcap), FNeg(target)), FNeg(target)))

\* The loop of disambiguate_by_market_cap: best is [match, diff, raised],
\* match = None while best_diff is still infinite; the division by a
\* target of zero raises.
RECURSIVE ClosestByMarketCap(_, _, _)
ClosestByMarketCap(candidates, target, best) ==
    IF candidates = <<>> THEN best
    ELSE IF McapOrFdv(Head(candidates)) <= 0
    THEN ClosestByMarketCap(Tail(candidates), target, best)
    ELSE IF target = Zero
    THEN [best EXCEPT !.raised = "ZeroDivisionError"]
    ELSE IF best.match = None
            \/ ~FLeSigned(best.diff,
                          Deviation(McapOrFdv(Head(candidates)), target))
    THEN ClosestByMarketCap(
             Tail(candidates), target,
             [best EXCEPT !.match = Head(candidates),
                          !.diff = Deviation(McapOrFdv(Head(candidates)),
                                             target)])
    ELSE ClosestByMarketCap(Tail(candidates), target, best)

\* disambiguate_by_market_cap from `if best_match and best_diff <=
\* tolerance` on.
WithinTolerance(candidates, tolerance, best) ==
    IF best.raised # NoneStr THEN Raised(best.raised)
    ELSE IF best.match # None /\ FLeSigned(best.diff, tolerance)
    THEN best.match
    ELSE candidates[1]

\* A disambiguation that runs its loop on a single candidate too.
DisambiguateAlwaysCompares(candidates, target_market_cap, tolerance) ==
    IF candidates = <<>> THEN None
    ELSE WithinTolerance(
             candidates, tolerance,
             ClosestByMarketCap(candidates, target_market_cap,
                                [match |-> None, diff |-> Zero,
                                 raised |-> NoneStr]))

\* TokenResolver.disambiguate_by_market_cap: a token, None, or the
\* exception raised.
DisambiguateByMarketCap(candidates, target_market_cap, tolerance) ==
    IF candidates = <<>> THEN None
    ELSE IF Len(candidates) = 1 THEN candidates[1]
    ELSE WithinTolerance(
             candidates, tolerance,
             ClosestByMarketCap(candidates, target_market_cap,
                                [match |-> None, diff |-> Zero,
                                 raised |-> NoneStr]))

\* tolerance: float = 0.5 (token_resolver.py:95).
DisambiguationTolerance == <<1, -1>>

\* The truth value of an optional float: None and 0.0 are false.
TruthyFloat(x) == x # None /\ x # Zero

\* A choice of branch that takes every hint other than None for a hint.
ResolveBranchAnyHint(candidates, market_cap_hint) ==
    IF candidates = <<>> THEN "absent"
    ELSE IF Len(candidates) = 1 THEN "single"
    ELSE IF market_cap_hint # None THEN "market_cap"
    ELSE "liquidity"

\* The branch resolve takes on the candidates of the search.
ResolveBranch(candidates, market_cap_hint) ==
    IF candidates = <<>> THEN "absent"
    ELSE IF Len(candidates) = 1 THEN "single"
    ELSE IF TruthyFloat(market_cap_hint) THEN "market_cap"
    ELSE "liquidity"

\* resolve from `if len(candidates) == 1` on: the token it picks, and the
\* supply enrichment `if token:`.
EnrichPicked(picked, rpcSupply) ==
    IF picked = None \/ IsRaised(picked) THEN picked
    ELSE EnrichSupply(picked, rpcSupply)

\* TokenResolver.resolve on the candidates search_by_ticker returned.
ResolveAmong(candidates, market_cap_hint, rpcSupply) ==
    IF candidates = <<>> THEN None
    ELSE EnrichPicked(
             IF ResolveBranch(candidates, market_cap_hint) = "market_cap"
             THEN DisambiguateByMarketCap(candidates, market_cap_hint,
                                          DisambiguationTolerance)
             ELSE candidates[1],
             rpcSupply)

\* TokenResolver.resolve, on the response of the search endpoint.
Resolve(pairs, ticker, market_cap_hint, rpcSupply) ==
    ResolveAmong(SearchByTicker(pairs, ticker), market_cap_hint, rpcSupply)

(***************************************************************************)
(* api/helius.py                                                           *)
(*                                                                         *)
(* A response of the Helius endpoint is [kind, status, result]:            *)
(*   kind "result"    a JSON body with a "result" member                   *)
(*   kind "error"     a JSON body with an "error" member                   *)
(*   kind "no_result" a JSON body with neither                             *)
(*   kind "not_json"  a body that is not JSON                              *)
(*   kind "transport" no response: client.post raised a timeout or a       *)
(*                    connection error                                     *)
(* status is the HTTP status, 429 for a rate-limit response.               *)
(***************************************************************************)
\* BaseAPIClient.__init__, max_retries: int = 3 (base.py:28).
MaxRetries == 3

\* HeliusClient.rpc_request on the response to its one client.post:
\* [raised, value, attempts].
RpcRequest(resp) ==
    IF resp.kind = "transport"
    THEN [raised |-> "httpx.RequestError", value |-> None, attempts |-> 1]
    ELSE IF resp.kind = "not_json"
    THEN [raised |-> "JSONDecodeError", value |-> None, attempts |-> 1]
    ELSE IF resp.kind = "error"
    THEN [raised |-> "APIError", value |-> None, attempts |-> 1]
    ELSE [raised   |-> NoneStr,
          value    |-> IF resp.kind = "result" THEN resp.result ELSE None,
          attempts |-> 1]

\* HeliusClient.get_token_accounts: [raised, value, attempts].
GetTokenAccounts(resp) ==
    LET r == RpcRequest(resp)
    IN  IF r.raised # NoneStr THEN r
        ELSE IF r.value # None /\ "token_accounts" \in DOMAIN r.value
             THEN [r EXCEPT !.value = r.value.token_accounts]
        ELSE [r EXCEPT !.value = <<>>]

\* HeliusClient.get_token_supply: [raised, value, attempts]; value is the
\* "value" dict of the result.
GetTokenSupply(resp) ==
    LET r == RpcRequest(resp)
    IN  IF r.raised # NoneStr THEN r
        ELSE IF r.value # None /\ "value" \in DOMAIN r.value
             THEN [r EXCEPT !.value = r.value.value]
        ELSE [r EXCEPT !.value = None]

\* The locals of get_all_holders as it starts: page = 1, all_accounts = [].
\* status is "running" while the loop runs, then "returned" or "raised";
\* requests is the log of the page requests made.
HoldersInit(max_pages) ==
    [page         |-> 1,
     all_accounts |-> <<>>,
     requests     |-> <<>>,
     status       |-> IF 1 <= max_pages THEN "running" ELSE "returned",
     raised       |-> NoneStr]

\* An iteration that goes on to the next page after a short page.
HoldersStepNoShortStop(loop, max_pages, resp) ==
    LET got      == GetTokenAccounts(resp)
        accounts == got.value
        logged   == Append(loop.requests,
                           [page |-> loop.page, limit |-> PageLimit,
                            attempts |-> got.attempts,
                            returned |-> IF got.raised = NoneStr
                                         THEN Len(accounts) ELSE -1])
    IN  IF got.raised # NoneStr
        THEN [loop EXCEPT !.requests = logged, !.status = "raised",
                          !.raised = got.raised]
        ELSE IF accounts = <<>>
        THEN [loop EXCEPT !.requests = logged, !.status = "returned"]
        ELSE [loop EXCEPT !.requests = logged,
                          !.all_accounts = loop.all_accounts \o accounts,
                          !.page = loop.page + 1,
                          !.status = IF loop.page + 1 <= max_pages
                                     THEN "running" ELSE "returned"]

\* An iteration that keeps one record per owner.
HoldersStepDedup(loop, max_pages, resp) ==
    LET got      == GetTokenAccounts(resp)
        accounts == got.value
        logged   == Append(loop.requests,
                           [page |-> loop.page, limit |-> PageLimit,
                            attempts |-> got.attempts,
                            returned |-> IF got.raised = NoneStr
                                         THEN Len(accounts) ELSE -1])
        fresh    == SelectSeq(accounts,
                        LAMBDA a : \A i \in 1..Len(loop.all_accounts) :
                                      loop.all_accounts[i].owner # a.owner)
    IN  IF got.raised # NoneStr
        THEN [loop EXCEPT !.requests = logged, !.status = "raised",
                          !.raised = got.raised]
        ELSE IF accounts = <<>>
        THEN [loop EXCEPT !.requests = logged, !.status = "returned"]
        ELSE IF Len(accounts) < PageLimit
        THEN [loop EXCEPT !.requests = logged, !.status = "returned",
                          !.all_accounts = loop.all_accounts \o fresh]
        ELSE [loop EXCEPT !.requests = logged,
                          !.all_accounts = loop.all_accounts \o fresh,
                          !.page = loop.page + 1,
                          !.status = IF loop.page + 1 <= max_pages
                                     THEN "running" ELSE "returned"]

\* An iteration that raises when the last page allowed is a full one.
HoldersStepRaisesWhenTruncated(loop, max_pages, resp) ==
    LET got      == GetTokenAccounts(resp)
        accounts == got.value
        logged   == Append(loop.requests,
                           [page |-> loop.page, limit |-> PageLimit,
                            attempts |-> got.attempts,
                            returned |-> IF got.raised = NoneStr
                                         THEN Len(accounts) ELSE -1])
    IN  IF got.raised # NoneStr
        THEN [loop EXCEPT !.requests = logged, !.status = "raised",
                          !.raised = got.raised]
        ELSE IF accounts = <<>>
        THEN [loop EXCEPT !.requests = logged, !.status = "returned"]
        ELSE IF Len(accounts) < PageLimit
        THEN [loop EXCEPT !.requests = logged, !.status = "returned",
                          !.all_accounts = loop.all_accounts \o accounts]
        ELSE IF loop.page + 1 <= max_pages
        THEN [loop EXCEPT !.requests = logged,
                          !.all_accounts = loop.all_accounts \o accounts,
                          !.page = loop.page + 1]
        ELSE [loop EXCEPT !.requests = logged, !.status = "raised",
                          !.raised = "TruncatedError"]

\* One iteration of the while loop of get_all_holders, on the response to
\* the page request it makes, up to the next test of page <= max_pages.
HoldersStep(loop, max_pages, resp) ==
    LET got      == GetTokenAccounts(resp)
        accounts == got.value
        logged   == Append(loop.requests,
                           [page |-> loop.page, limit |-> PageLimit,
                            attempts |-> got.attempts,
                            returned |-> IF got.raised = NoneStr
                                         THEN Len(accounts) ELSE -1])
    IN  IF got.raised # NoneStr
        THEN [loop EXCEPT !.requests = logged, !.status = "raised",
                          !.raised = got.raised]
        ELSE IF accounts = <<>>
        THEN [loop EXCEPT !.requests = logged, !.status = "returned"]
        ELSE IF Len(accounts) < PageLimit
        THEN [loop EXCEPT !.requests = logged, !.status = "returned",
                          !.all_accounts = loop.all_accounts \o accounts]
        ELSE [loop EXCEPT !.requests = logged,
                          !.all_accounts = loop.all_accounts \o accounts,
                          !.page = loop.page + 1,
                          !.status = IF loop.page + 1 <= max_pages
                                     THEN "running" ELSE "returned"]

(***************************************************************************)
(* The ledger provider.  It holds a list of token accounts per mint and    *)
(* serves it in pages; `fault` = [at, resp] makes the at-th request of a   *)
(* call fail with the response resp (at = 0: no request fails).            *)
(***************************************************************************)
\* The page `page` of `limit` records of the accounts.
PageOf(accounts, page, limit) ==
    SubSeq(accounts, (page - 1) * limit + 1, Min(page * limit, Len(accounts)))

OkResponse(result) == [kind |-> "result", status |-> 200, result |-> result]

\* The response to getTokenAccounts(mint, page, limit), the nth request.
PageResponse(accounts, page, limit, fault, nth) ==
    IF fault.at = nth THEN fault.resp
    ELSE OkResponse([token_accounts |-> PageOf(accounts, page, limit)])

\* The response to getTokenSupply(mint), the nth request; `supply` is the
\* "value" dict the provider reports.
SupplyResponse(supply, fault, nth) ==
    IF fault.at = nth THEN fault.resp
    ELSE OkResponse([value |-> supply])

\* HeliusClient.get_all_holders: the loop run to its end against the
\* provider; `before` is the number of requests the caller made earlier.
RECURSIVE RunHolders(_, _, _, _, _)
RunHolders(loop, max_pages, accounts, fault, before) ==
    IF loop.status # "running" THEN loop
    ELSE RunHolders(
             HoldersStep(loop, max_pages,
                         PageResponse(accounts, loop.page, PageLimit, fault,
                                      before + Len(loop.requests) + 1)),
             max_pages, accounts, fault, before)

GetAllHolders(max_pages, accounts, fault, before) ==
    RunHolders(HoldersInit(max_pages), max_pages, accounts, fault, before)

(***************************************************************************)
(* matcher.py                                                              *)
(***************************************************************************)
\* Index of owner in owner_totals, 0 if it is no key of the dict.
RECURSIVE IndexOfOwner(_, _, _)
IndexOfOwner(owner_totals, owner, i) ==
    IF i > Len(owner_totals) THEN 0
    ELSE IF owner_totals[i].owner = owner THEN i
    ELSE IndexOfOwner(owner_totals, owner, i + 1)

\* Step 4 of find_candidates, the loop over raw_accounts.  owner_totals is
\* a defaultdict(float), kept here as the sequence of its items in
\* insertion order.
RECURSIVE OwnerTotals(_, _, _)
OwnerTotals(raw_accounts, decimals, owner_totals) ==
    IF raw_accounts = <<>> THEN owner_totals
    ELSE LET acct      == Head(raw_accounts)
             ui_amount == IntTrueDiv(acct.amount, decimals)
             at        == IndexOfOwner(owner_totals, acct.owner, 1)
             next ==
                 IF acct.owner = "" THEN owner_totals
                 ELSE IF at = 0
                      THEN Append(owner_totals,
                                  [owner |-> acct.owner,
                                   held  |-> FAdd(Zero, ui_amount)])
                 ELSE [owner_totals EXCEPT
                          ![at].held = FAdd(owner_totals[at].held, ui_amount)]
         IN  OwnerTotals(Tail(raw_accounts), decimals, next)

\* A test that evaluates the ratio before it looks at the sign of target.
MatchStepRatioFirst(held, target, tolerance) ==
    [match   |-> target[1] > 0
                 /\ FLe(FDiv(FAbsDiff(held, target), target), tolerance),
     divided |-> TRUE]

\* The test of step 5, target > 0 and abs(held - target) / target <=
\* tolerance: [match, divided], divided telling whether the division by
\* target was evaluated.
MatchStep(held, target, tolerance) ==
    IF target[1] > 0
    THEN [match   |-> FLe(FDiv(FAbsDiff(held, target), target), tolerance),
          divided |-> TRUE]
    ELSE [match |-> FALSE, divided |-> FALSE]

\* A loop that puts every new candidate before the ones found so far.
RECURSIVE MatchOwnersNewestFirst(_, _, _, _, _)
MatchOwnersNewestFirst(owner_totals, target, tolerance, mint, acc) ==
    IF owner_totals = <<>> THEN acc
    ELSE LET item == Head(owner_totals)
             step == MatchStep(item.held, target, tolerance)
             next ==
                 [candidates |->
                      IF step.match
                      THEN <<WalletMatch(item.owner, mint, item.held)>>
                           \o acc.candidates
                      ELSE acc.candidates,
                  divisions |-> acc.divisions + (IF step.divided THEN 1 ELSE 0)]
         IN  MatchOwnersNewestFirst(Tail(owner_totals), target, tolerance,
                                    mint, next)

\* Step 5 of find_candidates, the loop over owner_totals.items():
\* [candidates, divisions].
RECURSIVE MatchOwners(_, _, _, _, _)
MatchOwners(owner_totals, target, tolerance, mint, acc) ==
    IF owner_totals = <<>> THEN acc
    ELSE LET item == Head(owner_totals)
             step == MatchStep(item.held, target, tolerance)
             next ==
                 [candidates |->
                      IF step.match
                      THEN Append(acc.candidates,
                                  WalletMatch(item.owner, mint, item.held))
                      ELSE acc.candidates,
                  divisions |-> acc.divisions + (IF step.divided THEN 1 ELSE 0)]
         IN  MatchOwners(Tail(owner_totals), target, tolerance, mint, next)

\* The accounts the ledger provider holds for a mint.
LedgerOf(env, mint) ==
    IF mint \in DOMAIN env.ledger THEN env.ledger[mint] ELSE <<>>

\* max_pages as find_candidates passes it to get_all_holders (matcher.py:80
\* passes none: the default of helius.py:89 applies).
HolderPages(config) == DefaultMaxPages

\* The method names of the log of ledger requests.
SupplyRequest(mint) == [method |-> "getTokenSupply", mint |-> mint, page |-> 0]

PageRequests(mint, requests) ==
    [i \in 1..Len(requests) |->
        [method |-> "getTokenAccounts", mint |-> mint, page |-> requests[i].page]]

\* What a call of find_candidates leaves behind:
\*   status    "returned" or "raised", and the exception raised
\*   result    the SearchResult returned
\*   query     the caller's query object after the call
\*   dex       the market-data endpoint the resolver asked
\*   requests  the ledger requests made, in order
\*   holders   the records get_all_holders returned
\*   divisions the divisions by target evaluated
Outcome(status, raised, result, query, dex, requests, holders, divisions) ==
    [status    |-> status,
     raised    |-> raised,
     result    |-> result,
     query     |-> query,
     dex       |-> dex,
     requests  |-> requests,
     holders   |-> holders,
     divisions |-> divisions]

\* A matcher that raises where find_candidates returns the absent result.
NotFoundRaises(query, dex) ==
    Outcome("raised", "TokenNotFound", None, query, dex, <<>>, <<>>, 0)

\* A matcher that asks for the supply before it tests the token.
NotFoundAfterSupply(query, dex) ==
    Outcome("returned", NoneStr, SearchResult(query, None, <<>>, 0),
            query, dex, <<SupplyRequest(query.mint_address)>>, <<>>, 0)

\* The early return of find_candidates, `if not token`.
NotFound(query, dex) ==
    Outcome("returned", NoneStr, SearchResult(query, None, <<>>, 0),
            query, dex, <<>>, <<>>, 0)

\* A step 1 that searches by ticker whatever the query holds.
DexEndpointAlwaysSearch(query) == "search"

\* The endpoint of the market-data provider step 1 of find_candidates
\* asks: `if query.mint_address`.
DexEndpoint(query) ==
    IF Truthy(query.mint_address) THEN "tokens" ELSE "search"

\* The token the resolver yields for the query: step 1 of find_candidates.
ResolveQuery(query, env) ==
    IF DexEndpoint(query) = "tokens"
    THEN GetByMintAddress(env.pairs, env.rpcSupply)
    ELSE Resolve(env.pairs, query.ticker, None, env.rpcSupply)

\* A return that reports the number of holder records.
MatchHoldersCountsRecords(config, query, token, dex, requests, raw_accounts, owner_totals) ==
    LET matched == MatchOwners(owner_totals, query.token_amount,
                               config.tolerance, token.mint_address,
                               [candidates |-> <<>>, divisions |-> 0])
    IN  Outcome("returned", NoneStr,
                SearchResult(query, token, matched.candidates,
                             Len(raw_accounts)),
                query, dex, requests, raw_accounts, matched.divisions)

\* Steps 4 and 5 of find_candidates and its return, on the accounts
\* get_all_holders returned.
MatchHolders(config, query, token, dex, requests, raw_accounts, owner_totals) ==
    LET matched == MatchOwners(owner_totals, query.token_amount,
                               config.tolerance, token.mint_address,
                               [candidates |-> <<>>, divisions |-> 0])
    IN  Outcome("returned", NoneStr,
                SearchResult(query, token, matched.candidates,
                             Len(owner_totals)),
                query, dex, requests, raw_accounts, matched.divisions)

\* A step 3 that catches the error of a page request and goes on with the
\* accounts of the pages fetched before it.
ScanHoldersPartial(config, query, token, dex, loop) ==
    MatchHolders(config, query, token, dex,
                 <<SupplyRequest(token.mint_address)>>
                 \o PageRequests(token.mint_address, loop.requests),
                 loop.all_accounts,
                 OwnerTotals(loop.all_accounts, query.decimals, <<>>))

\* Step 3 of find_candidates, on the run of get_all_holders.
ScanHolders(config, query, token, dex, loop) ==
    LET requests == <<SupplyRequest(token.mint_address)>>
                    \o PageRequests(token.mint_address, loop.requests)
    IN  IF loop.status = "raised"
        THEN Outcome("raised", loop.raised, None, query, dex, requests, <<>>, 0)
        ELSE MatchHolders(config, query, token, dex, requests,
                          loop.all_accounts,
                          OwnerTotals(loop.all_accounts, query.decimals, <<>>))

\* A step 2 that writes decimals to the query and not to the token.
WithDecimalsOnQueryOnly(config, query, env, token, dex, decimals) ==
    ScanHolders(config, [query EXCEPT !.decimals = decimals], token, dex,
                GetAllHolders(HolderPages(config),
                              LedgerOf(env, token.mint_address), env.fault, 1))

\* Step 2 of find_candidates, on what get_token_supply gave: decimals is
\* written to the query and to the token.
WithDecimals(config, query, env, token, dex, decimals) ==
    ScanHolders(config, [query EXCEPT !.decimals = decimals],
                [token EXCEPT !.decimals = decimals], dex,
                GetAllHolders(HolderPages(config),
                              LedgerOf(env, token.mint_address), env.fault, 1))

\* find_candidates from `query.mint_address = token.mint_address` on.
WithToken(config, query, env, token, dex, supply) ==
    IF supply.raised # NoneStr
    THEN Outcome("raised", supply.raised, None, query, dex,
                 <<SupplyRequest(token.mint_address)>>, <<>>, 0)
    ELSE WithDecimals(config, query, env, token, dex,
                      IF supply.value # None
                         /\ "decimals" \in DOMAIN supply.value
                      THEN supply.value.decimals ELSE DefaultDecimals)

\* find_candidates from `if not token` on.
Resolved(config, query, env, token, dex) ==
    IF token = None THEN NotFound(query, dex)
    ELSE WithToken(config, [query EXCEPT !.mint_address = token.mint_address],
                   env, token, dex,
                   GetTokenSupply(SupplyResponse(env.supply, env.fault, 1)))

\* WalletMatcher.find_candidates(query) against the providers' data env =
\* [dexRaises, pairs, rpcSupply, supply, ledger, fault].
FindCandidates(config, query, env) ==
    IF env.dexRaises # NoneStr
    THEN Outcome("raised", env.dexRaises, None, query, DexEndpoint(query),
                 <<>>, <<>>, 0)
    ELSE Resolved(config, query, env, ResolveQuery(query, env),
                  DexEndpoint(query))

\* {m.address for m in candidates}
Addresses(candidates) ==
    {candidates[i].address : i \in 1..Len(candidates)}

\* The addresses of the model in the order of Python's str comparison.
AddressOrder == <<"A", "B", "C">>

\* sorted(wallets) for a set of addresses.
Sorted(wallets) == SelectSeq(AddressOrder, LAMBDA a : a \in wallets)

\* A confirmed list that keeps the order of the primary candidates.
ConfirmedInPrimaryOrder(candidates1, candidates2) ==
    LET both == SelectSeq(candidates1,
                          LAMBDA m : m.address \in Addresses(candidates2))
    IN  [i \in 1..Len(both) |-> both[i].address]

\* confirmed = sorted(wallets1 & wallets2)
ConfirmedWallets(candidates1, candidates2) ==
    Sorted(Addresses(candidates1) \cap Addresses(candidates2))

\* A result that counts as verified as soon as any wallet is confirmed.
VerificationResultAnyWallet(primary_query, verification_query, confirmed_wallets, primary_candidates, verification_candidates) ==
    [primary_query           |-> primary_query,
     verification_query      |-> verification_query,
     confirmed_wallets       |-> confirmed_wallets,
     primary_candidates      |-> primary_candidates,
     verification_candidates |-> verification_candidates,
     verified                |-> Len(confirmed_wallets) >= 1,
     wallet                  |-> IF Len(confirmed_wallets) >= 1
                                 THEN confirmed_wallets[1] ELSE NoneStr]

\* VerificationResult with its properties `verified` and `wallet`.
VerificationResult(primary_query, verification_query, confirmed_wallets, primary_candidates, verification_candidates) ==
    [primary_query           |-> primary_query,
     verification_query      |-> verification_query,
     confirmed_wallets       |-> confirmed_wallets,
     primary_candidates      |-> primary_candidates,
     verification_candidates |-> verification_candidates,
     verified                |-> Len(confirmed_wallets) = 1,
     wallet                  |-> IF Len(confirmed_wallets) = 1
                                 THEN confirmed_wallets[1] ELSE NoneStr]

\* verify_with_second_holding from the two results on; `searches` is the
\* log of the ledger requests of each find_candidates that ran (the second
\* does not run when the first raised).
Intersect(result1, result2) ==
    IF result1.status = "raised"
    THEN [status |-> "raised", raised |-> result1.raised, result |-> None,
          searches |-> <<result1.requests>>]
    ELSE IF result2.status = "raised"
    THEN [status |-> "raised", raised |-> result2.raised, result |-> None,
          searches |-> <<result1.requests, result2.requests>>]
    ELSE [status |-> "returned", raised |-> NoneStr,
          searches |-> <<result1.requests, result2.requests>>,
          result |->
              VerificationResult(
                  result1.query, result2.query,
                  ConfirmedWallets(result1.result.candidates,
                                   result2.result.candidates),
                  result1.result.candidates,
                  result2.result.candidates)]

\* A verification that searches for the verification query first.
VerifyWithSecondHoldingVerificationFirst(config, primary, verification, env1, env2) ==
    Intersect(FindCandidates(config, verification, env2),
              FindCandidates(config, primary, env1))

\* WalletMatcher.verify_with_second_holding(primary, verification); env1
\* and env2 are the providers' data the first and the second
\* find_candidates meet.
VerifyWithSecondHolding(config, primary, verification, env1, env2) ==
    Intersect(FindCandidates(config, primary, env1),
              FindCandidates(config, verification, env2))

(***************************************************************************)
(* The inputs of the calls and the data of the providers.                  *)
(***************************************************************************)
Pair(chainId, address, symbol, liquidity) ==
    [chainId |-> chainId, address |-> address, symbol |-> symbol,
     liquidity |-> liquidity, marketCap |-> 0, fdv |-> 0]

PairWithCaps(chainId, address, symbol, liquidity, marketCap, fdv) ==
    [chainId |-> chainId, address |-> address, symbol |-> symbol,
     liquidity |-> liquidity, marketCap |-> marketCap, fdv |-> fdv]

RpcSupplyOk(value) == [raised |-> FALSE, value |-> value]
RpcSupplyFails     == [raised |-> TRUE, value |-> 0]

\* What the market-data provider answers (dexRaises: the exception its
\* client lets through, base.py _request), and what the Solana RPC answers.
Market(dexRaises, pairs, rpcSupply) ==
    [dexRaises |-> dexRaises, pairs |-> pairs, rpcSupply |-> rpcSupply]

Markets ==
    { Market("APIError", <<>>, RpcSupplyFails),
      Market(NoneStr, <<>>, RpcSupplyOk(7)),
      Market(NoneStr, <<Pair("solana", "M1", "BONK", 5)>>, RpcSupplyOk(7)),
      Market(NoneStr, <<Pair("solana", "M1", "bonk", 5)>>, RpcSupplyFails),
      Market(NoneStr, <<Pair("ethereum", "E1", "BONK", 9),
                        Pair("solana", "M2", "BONK", 3),
                        Pair("solana", "M1", "BONK", 5)>>, RpcSupplyOk(7)) }

\* The "value" dict of getTokenSupply: with decimals, or without.
Supplies == {[decimals |-> 0], [decimals |-> 1], [amount |-> 0]}

\* Token accounts: an owner ("" for a record without one) and a raw amount.
Owners     == {"", "A", "B"}
RawAmounts == {2, 11}
\* Owner A holds accounts of either amount, the others of the first.
Accounts   ==
    {a \in [owner : Owners, amount : RawAmounts] :
        a.owner = "A" \/ a.amount = 2}

RECURSIVE SeqsUpTo(_, _)
SeqsUpTo(S, n) ==
    IF n = 0 THEN {<<>>}
    ELSE LET shorter == SeqsUpTo(S, n - 1)
         IN  shorter \cup {Append(s, x) : s \in {t \in shorter : Len(t) = n - 1},
                                          x \in S}

Ledgers == SeqsUpTo(Accounts, MaxAccounts)

\* The responses of the ledger endpoint that are no result.
Timeout     == [kind |-> "transport", status |-> 0]
RateLimited == [kind |-> "error",     status |-> 429]
EmptyBody   == [kind |-> "no_result", status |-> 429]

FaultResponses == {Timeout, RateLimited, EmptyBody}

NoFault == [at |-> 0, resp |-> OkResponse(None)]

\* The supply request is request 1 of a call, the page requests follow.
Faults ==
    { NoFault,
      [at |-> 1, resp |-> Timeout],
      [at |-> 1, resp |-> EmptyBody],
      [at |-> 2, resp |-> RateLimited],
      [at |-> 3, resp |-> EmptyBody],
      [at |-> 3, resp |-> Timeout] }

Envs ==
    { [dexRaises |-> m.dexRaises, pairs |-> m.pairs,
       rpcSupply |-> m.rpcSupply, supply |-> s, ledger |-> ("M1" :> l),
       fault |-> f] :
        m \in Markets, s \in Supplies, l \in Ledgers, f \in Faults }

\* token_amount: negative, zero, 1.0, 2.0
Targets == {<<-1, 0>>, Zero, FromInt(1), FromInt(2)}

Queries ==
    { HoldingQuery("BONK", t, m) : t \in Targets, m \in {NoneStr, "M1"} }

\* Config: tolerances.token_amount and max_holder_pages.
Configs == [tolerance : {RoundRatio(1, 10), Zero}, max_holder_pages : {1, 2}]

(***************************************************************************)
(* State.                                                                  *)
(***************************************************************************)
VARIABLES
    config,    \* the Config of the WalletMatcher
    pc,        \* "idle", or where the call in progress stands
    call,      \* the call in progress and its inputs, None when idle
    outcome,   \* what the call left behind, None until it ends
    loop,      \* the locals of the operation that runs step by step
    served,    \* the responses the endpoint gave to that run
    clients    \* the HTTP clients a request of find_wallet or
               \* verify_wallet holds open

vars == <<config, pc, call, outcome, loop, served, clients>>

Init ==
    /\ config \in Configs
    /\ pc = "idle"
    /\ call = None
    /\ outcome = None
    /\ loop = None
    /\ served = <<>>
    /\ clients = {}

\* WalletMatcher.find_candidates(query), as one step.
FindCandidatesCall ==
    /\ pc = "idle"
    /\ \E query \in Queries, env \in Envs :
          /\ call' = [op |-> "find_candidates", query |-> query, env |-> env]
          /\ outcome' = FindCandidates(config, query, env)
          /\ pc' = outcome'.status
    /\ UNCHANGED <<config, loop, served, clients>>

\* The caller takes the result (or the exception); the matcher is idle again.
Return ==
    /\ pc \in {"returned", "raised"}
    /\ pc' = "idle"
    /\ call' = None
    /\ outcome' = None
    /\ loop' = None
    /\ served' = <<>>
    /\ UNCHANGED <<config, clients>>

Next == FindCandidatesCall \/ Return

Spec == Init /\ [][Next]_vars

(***************************************************************************)
(* Properties of find_candidates (specification Spec).                     *)
(***************************************************************************)
\* A call of find_candidates has ended / has returned / has returned a
\* result for a resolved token.
Ended    == pc \in {"returned", "raised"} /\ call.op = "find_candidates"
Returned == pc = "returned" /\ call.op = "find_candidates"
Scanned  == Returned /\ outcome.result.token_info # None

\* The owners of a list of holder records, and the exact sum of the raw
\* amounts of one owner.
OwnersOf(accounts) ==
    {accounts[i].owner : i \in 1..Len(accounts)} \ {""}

RECURSIVE RawTotal(_, _)
RawTotal(accounts, owner) ==
    IF accounts = <<>> THEN 0
    ELSE (IF Head(accounts).owner = owner THEN Head(accounts).amount ELSE 0)
         + RawTotal(Tail(accounts), owner)

CandidateAddresses(result) == Addresses(result.candidates)

\* |raw / 10^decimals - t| <= t * tol in exact arithmetic.
RawInBand(raw, decimals, t, tol) ==
    LET lo == Min(0, Min(t[2], t[2] + tol[2]))
        D  == Pow(10, decimals)
        A  == raw * Pow(2, 0 - lo)
        T  == t[1] * Pow(2, t[2] - lo)
        B  == t[1] * tol[1] * Pow(2, t[2] + tol[2] - lo)
    IN  Abs(A - T * D) <= B * D

\* The amount the code aggregated for an owner of the returned holders.
HeldOf(owner) ==
    LET totals == OwnerTotals(outcome.holders, outcome.query.decimals, <<>>)
    IN  totals[IndexOfOwner(totals, owner, 1)].held

\* C1: for a positive target, the candidates are exactly the owners whose
\* aggregated amount, the sum of the owner's raw amounts over 10^decimals,
\* lies in the band |amount - target| <= target * tolerance: every owner in
\* the band is a candidate and no owner outside it is.
C1_CandidatesAreTheExactBand ==
    (Scanned /\ call.query.token_amount[1] > 0 /\ outcome.query.decimals <= 1)
    => \A o \in OwnersOf(outcome.holders) :
          (o \in CandidateAddresses(outcome.result))
          <=> RawInBand(RawTotal(outcome.holders, o), outcome.query.decimals,
                        call.query.token_amount, config.tolerance)

\* C2: a target <= 0 on a resolved token gives no candidate, whatever the
\* holder records are, and the division by target is never evaluated.
C2_NonPositiveTargetMatchesNothing ==
    (Scanned /\ call.query.token_amount[1] <= 0)
    => /\ outcome.result.candidates = <<>>
       /\ outcome.divisions = 0

\* C2's case: a non-positive target met holder records with owners.
C2_Witness ==
    /\ Scanned
    /\ call.query.token_amount[1] <= 0
    /\ outcome.result.total_holders_scanned = 2
    /\ outcome.result.candidates = <<>>

\* C3: the amount aggregated for an owner is the sum of the raw amounts of
\* the owner's records over 10^decimals (the float nearest to it), however
\* many records the owner has and in whatever order.
C3_AggregationIsOwnerAdditive ==
    (Scanned /\ outcome.query.decimals <= 1)
    => \A o \in OwnersOf(outcome.holders) :
          HeldOf(o) = IntTrueDiv(RawTotal(outcome.holders, o),
                                 outcome.query.decimals)

\* C6: when resolution yields no token, find_candidates returns normally
\* with a null token and no candidates; and every returned result with a
\* null token has no candidates.
C6_NotFoundIsAnAbsentResult ==
    /\ (Ended /\ call.env.dexRaises = NoneStr
              /\ ResolveQuery(call.query, call.env) = None)
       => /\ pc = "returned"
          /\ outcome.result.token_info = None
          /\ outcome.result.candidates = <<>>
    /\ (Returned /\ outcome.result.token_info = None)
       => outcome.result.candidates = <<>>

\* C6's case: a query by mint resolved to nothing, while the ledger holds
\* accounts.
C6_Witness ==
    /\ Returned
    /\ outcome.result.token_info = None
    /\ Truthy(call.query.mint_address)
    /\ call.env.ledger["M1"] # <<>>

\* The holder-page requests of the call.
HolderPageRequests ==
    SelectSeq(outcome.requests, LAMBDA r : r.method = "getTokenAccounts")

\* C9: the number of holder-page requests of one find_candidates call never
\* exceeds the configured max_holder_pages.
C9_HolderPagesBoundedByConfig ==
    Ended => Len(HolderPageRequests) <= config.max_holder_pages

\* C19: a find_candidates whose query already holds a mint address asks the
\* market-data provider for that mint and makes no ticker search, and the
\* token is the one of the by-mint lookup; a query without a mint address is
\* resolved by the ticker search and no by-mint lookup is made.
C19_StepOneDispatchesOnMint ==
    Ended =>
       IF call.query.mint_address \notin {NoneStr, ""}
       THEN /\ outcome.dex = "tokens"
            /\ Scanned
               => outcome.result.token_info.mint_address
                     = GetTokenByAddress(call.env.pairs).address
       ELSE /\ outcome.dex = "search"
            /\ Scanned
               => outcome.result.token_info.mint_address
                     = SearchByTicker(call.env.pairs,
                                      call.query.ticker)[1].mint_address

\* C19's case: the by-mint lookup and the ticker search would give
\* different tokens, and the query holds a mint address.
C19_Witness ==
    /\ Scanned
    /\ call.query.mint_address = "M1"
    /\ outcome.dex = "tokens"
    /\ SearchByTicker(call.env.pairs, call.query.ticker) # <<>>
    /\ outcome.result.token_info.mint_address
          # SearchByTicker(call.env.pairs,
                           call.query.ticker)[1].mint_address

\* The decimals the supply lookup of the call reported, 9 when its response
\* carries none.
ReportedDecimals ==
    IF call.env.fault.at # 1 /\ "decimals" \in DOMAIN call.env.supply
    THEN call.env.supply.decimals
    ELSE 9

\* C20: after a find_candidates that resolved a token and returned, the
\* decimals of the query and of the returned token are the decimals the
\* supply lookup reported, 9 when it reported none, and the amounts of the
\* candidates are the raw amounts converted with that value.
C20_DecimalsSetOnQueryAndToken ==
    Scanned =>
       /\ outcome.query.decimals = ReportedDecimals
       /\ outcome.result.query.decimals = ReportedDecimals
       /\ outcome.result.token_info.decimals = ReportedDecimals
       /\ \A i \in 1..Len(outcome.result.candidates) :
             LET c      == outcome.result.candidates[i]
                 totals == OwnerTotals(outcome.holders, ReportedDecimals, <<>>)
             IN  c.holdings[outcome.result.token_info.mint_address]
                    = totals[IndexOfOwner(totals, c.address, 1)].held

\* C20's case: the supply lookup reports no decimal places, and a holder of
\* 2 raw units is a candidate for the amount 2.0.
C20_Witness ==
    /\ Scanned
    /\ call.env.fault.at = 0
    /\ call.env.supply = [decimals |-> 0]
    /\ outcome.result.token_info.decimals = 0
    /\ outcome.result.candidates # <<>>

\* C20's other case: the supply response carries no decimals.
C20_WitnessDefault ==
    /\ Scanned
    /\ call.env.fault.at = 0
    /\ "decimals" \notin DOMAIN call.env.supply
    /\ outcome.result.token_info.decimals = 9
    /\ outcome.result.total_holders_scanned > 0

\* C21: the holder count of a SearchResult is the number of distinct
\* non-empty owner addresses among the holder records retrieved, not the
\* number of records nor of candidates; a record without an owner counts
\* for nothing and is no candidate.
C21_HolderCountIsDistinctOwners ==
    Scanned =>
       /\ outcome.result.total_holders_scanned
             = Cardinality(OwnersOf(outcome.holders))
       /\ "" \notin CandidateAddresses(outcome.result)
       /\ CandidateAddresses(outcome.result) \subseteq OwnersOf(outcome.holders)

\* C21's case: two records, one of them without an owner; one owner is
\* counted, and it is no candidate.
C21_Witness ==
    /\ Scanned
    /\ Len(outcome.holders) = 2
    /\ \E i \in 1..2 : outcome.holders[i].owner = ""
    /\ outcome.result.total_holders_scanned = 1
    /\ outcome.result.candidates = <<>>

\* C21's other case: two records of one owner are counted once.
C21_WitnessSameOwner ==
    /\ Scanned
    /\ Len(outcome.holders) = 2
    /\ outcome.holders[1].owner = outcome.holders[2].owner
    /\ outcome.holders[1].owner # ""
    /\ outcome.result.total_holders_scanned = 1

\* C26: when find_candidates is called with a mint address on the query and
\* a token is resolved, the supply request and every holder-page request
\* name the caller's mint, every candidate's holding is keyed by it, and the
\* query holds it after the call, whatever pair the provider returned.
C26_CallerMintIsKept ==
    (Ended /\ Truthy(call.query.mint_address) /\ outcome.requests # <<>>)
    => /\ outcome.query.mint_address = call.query.mint_address
       /\ \A i \in 1..Len(outcome.requests) :
             outcome.requests[i].mint = call.query.mint_address
       /\ pc = "returned" =>
             \A i \in 1..Len(outcome.result.candidates) :
                DOMAIN outcome.result.candidates[i].holdings
                   = {call.query.mint_address}

\* The by-mint lookup for M1 is answered with pairs whose most liquid one
\* has another base token: supply and holders of that token are asked for.
C26_WitnessOtherMint ==
    /\ Returned
    /\ call.query.mint_address = "M1"
    /\ outcome.query.mint_address = "E1"
    /\ outcome.requests[1] = SupplyRequest("E1")
    /\ Len(outcome.requests) >= 2

\* C27: when resolution yields no token, find_candidates leaves the mint
\* address and the decimals of the query as they were, makes no supply
\* request and no holder-page request, and reports a holder count of 0.
C27_NotFoundHasNoOtherEffect ==
    (Ended /\ call.env.dexRaises = NoneStr
           /\ ResolveQuery(call.query, call.env) = None)
    => /\ pc = "returned"
       /\ outcome.query = call.query
       /\ outcome.result.query = call.query
       /\ outcome.requests = <<>>
       /\ outcome.holders = <<>>
       /\ outcome.result.total_holders_scanned = 0

\* C27's case: a query by mint resolves to nothing while the ledger holds
\* two accounts and would answer the supply request.
C27_Witness ==
    /\ Returned
    /\ outcome.result.token_info = None
    /\ call.query.mint_address = "M1"
    /\ call.query.decimals = 9
    /\ Len(call.env.ledger["M1"]) = 2
    /\ call.env.fault.at = 0
    /\ outcome.requests = <<>>

\* The place of the first record of an owner among the holder records.
RECURSIVE FirstRecordOf(_, _, _)
FirstRecordOf(accounts, owner, i) ==
    IF i > Len(accounts) THEN 0
    ELSE IF accounts[i].owner = owner THEN i
    ELSE FirstRecordOf(accounts, owner, i + 1)

\* C28: in a SearchResult every owner address is the address of at most one
\* candidate, every candidate has exactly one holding, keyed by the mint of
\* the resolved token, whose value is the amount aggregated for its owner,
\* and the candidates stand in the order in which their owners first appear
\* in the holder records.
C28_OneCandidatePerOwnerInFirstSeenOrder ==
    Scanned =>
       /\ \A i, j \in 1..Len(outcome.result.candidates) :
             /\ (outcome.result.candidates[i].address
                   = outcome.result.candidates[j].address) => i = j
             /\ i < j =>
                   FirstRecordOf(outcome.holders,
                                 outcome.result.candidates[i].address, 1)
                   < FirstRecordOf(outcome.holders,
                                   outcome.result.candidates[j].address, 1)
       /\ \A i \in 1..Len(outcome.result.candidates) :
             /\ DOMAIN outcome.result.candidates[i].holdings
                   = {outcome.result.token_info.mint_address}
             /\ outcome.result.candidates[i].holdings[
                   outcome.result.token_info.mint_address]
                   = HeldOf(outcome.result.candidates[i].address)
             /\ FirstRecordOf(outcome.holders,
                              outcome.result.candidates[i].address, 1) > 0

\* C28's case: two owners are candidates, B's record before A's.
C28_Witness ==
    /\ Scanned
    /\ Len(outcome.result.candidates) = 2
    /\ outcome.result.candidates[1].address = "B"
    /\ outcome.result.candidates[2].address = "A"
    /\ outcome.holders[1].owner = "B"

(***************************************************************************)
(* get_all_holders step by step (specification SpecPages): every           *)
(* iteration of its loop is a step, and the endpoint chooses its response  *)
(* to each page request when the request is made.                          *)
(***************************************************************************)
\* The pages the endpoint may answer with: up to PageLimit records, two of
\* them accounts of the same owner.
PageRecords ==
    { [owner |-> "A", amount |-> 2], [owner |-> "A", amount |-> 11],
      [owner |-> "B", amount |-> 2] }

PageResponses ==
    {OkResponse([token_accounts |-> p]) : p \in SeqsUpTo(PageRecords, PageLimit)}
    \cup FaultResponses

\* HeliusClient.get_all_holders(mint, max_pages) starts.
GetAllHoldersCall ==
    /\ pc = "idle"
    /\ \E max_pages \in 0..MaxPagesTried :
          /\ call' = [op |-> "get_all_holders", mint |-> "M1",
                      max_pages |-> max_pages]
          /\ loop' = HoldersInit(max_pages)
          /\ pc' = loop'.status
    /\ served' = <<>>
    /\ UNCHANGED <<config, outcome, clients>>

\* One iteration of its loop: the request of page loop.page and what
\* follows from the response.
FetchPage ==
    /\ pc = "running"
    /\ \E resp \in PageResponses :
          /\ loop' = HoldersStep(loop, call.max_pages, resp)
          /\ served' = Append(served, resp)
          /\ pc' = loop'.status
    /\ UNCHANGED <<config, call, outcome, clients>>

NextPages == GetAllHoldersCall \/ FetchPage \/ Return

SpecPages == Init /\ [][NextPages]_vars

\* get_all_holders is running or has ended.
Paging == pc # "idle" /\ call.op = "get_all_holders"

\* C7: get_all_holders requests the pages 1, 2, 3, ... without a gap, makes
\* no request after the first page of fewer than 1000 records nor once
\* max_pages pages were requested, and never more than max_pages requests.
C7_PagesInOrderAndBounded ==
    Paging =>
       /\ \A i \in 1..Len(loop.requests) : loop.requests[i].page = i
       /\ Len(loop.requests) <= call.max_pages
       /\ \A i \in 1..(Len(loop.requests) - 1) :
             loop.requests[i].returned >= PageLimit
       /\ pc = "running" =>
             /\ Len(loop.requests) < call.max_pages
             /\ \A i \in 1..Len(loop.requests) :
                   loop.requests[i].returned >= PageLimit

\* C7's case: a full page, then a short second page ends the run before
\* max_pages is reached.
C7_Witness ==
    /\ Paging
    /\ pc = "returned"
    /\ call.max_pages = 3
    /\ Len(loop.requests) = 2
    /\ loop.requests[1].returned = PageLimit
    /\ loop.requests[2].returned = 1

\* The records of a response, none when it is no page.
RecordsOf(resp) ==
    IF resp.kind = "result" THEN resp.result.token_accounts ELSE <<>>

RECURSIVE Concatenation(_)
Concatenation(responses) ==
    IF responses = <<>> THEN <<>>
    ELSE RecordsOf(Head(responses)) \o Concatenation(Tail(responses))

\* C8: the list get_all_holders returns is the concatenation, in page order,
\* of the pages it fetched: nothing dropped, reordered or deduplicated.
C8_ResultIsTheConcatenation ==
    (Paging /\ pc \in {"running", "returned"})
    => loop.all_accounts = Concatenation(served)

\* C8's case: an owner with an account on each of two pages is returned
\* once per account.
C8_Witness ==
    /\ Paging
    /\ pc = "returned"
    /\ Len(served) = 2
    /\ Len(loop.all_accounts) = 3
    /\ loop.all_accounts[1].owner = loop.all_accounts[3].owner

\* C10: a ledger request that met a network error, a timeout or a
\* rate-limit response was retried up to the retry ceiling before its
\* error reached the caller.
C10_FaultsAreRetriedToTheCeiling ==
    Paging =>
       \A i \in 1..Len(served) :
          (served[i].kind = "transport" \/ served[i].status = 429)
          => loop.requests[i].attempts = MaxRetries

\* Every page served so far was a full one.
AllPagesFull ==
    \A i \in 1..Len(served) :
       /\ GetTokenAccounts(served[i]).raised = NoneStr
       /\ Len(GetTokenAccounts(served[i]).value) = PageLimit

\* The response is a page of no records.
EmptyPage(resp) ==
    /\ GetTokenAccounts(resp).raised = NoneStr
    /\ GetTokenAccounts(resp).value = <<>>

\* C30: when every page up to max_pages is a full one, get_all_holders
\* returns after exactly max_pages requests the max_pages * limit records
\* of those pages and raises nothing; and an empty page ends the run, which
\* returns the records gathered before it.
C30_TruncationIsSilent ==
    Paging =>
       /\ AllPagesFull =>
             /\ pc # "raised"
             /\ loop.raised = NoneStr
             /\ pc = "running" => Len(served) < call.max_pages
             /\ pc = "returned" =>
                   /\ Len(served) = call.max_pages
                   /\ Len(loop.requests) = call.max_pages
                   /\ Len(loop.all_accounts) = call.max_pages * PageLimit
                   /\ loop.all_accounts = Concatenation(served)
       /\ \A i \in 1..Len(served) :
             EmptyPage(served[i]) =>
                /\ i = Len(served)
                /\ pc = "returned"
                /\ loop.all_accounts = Concatenation(SubSeq(served, 1, i - 1))

\* C30's case: three full pages with max_pages = 3.
C30_Witness ==
    /\ Paging
    /\ pc = "returned"
    /\ call.max_pages = 3
    /\ AllPagesFull
    /\ Len(served) = 3
    /\ Len(loop.all_accounts) = 3 * PageLimit

\* C30's other case: an empty second page.
C30_WitnessEmptyPage ==
    /\ Paging
    /\ pc = "returned"
    /\ call.max_pages = 3
    /\ Len(served) = 2
    /\ EmptyPage(served[2])
    /\ Len(loop.all_accounts) = PageLimit

(***************************************************************************)
(* verify_with_second_holding (specification SpecVerify).                  *)
(***************************************************************************)
VerifyMints == {"M1", "M2"}

\* The ledger of a mint: what each address holds (0: no account), listed
\* in AddressOrder or against it.
RECURSIVE Reversed(_)
Reversed(seq) ==
    IF seq = <<>> THEN <<>> ELSE Append(Reversed(Tail(seq)), Head(seq))

HoldingsLedger(holds, backwards) ==
    LET owners  == SelectSeq(AddressOrder, LAMBDA a : holds[a] > 0)
        records == [i \in 1..Len(owners) |->
                       [owner |-> owners[i], amount |-> holds[owners[i]]]]
    IN  IF backwards THEN Reversed(records) ELSE records

\* A and B hold the amount 2 or nothing, C any raw amount or nothing.
VerifyLedgers ==
    { HoldingsLedger([A |-> a, B |-> b, C |-> c], backwards) :
        a \in {0, 2}, b \in {0, 2}, c \in {0} \cup RawAmounts,
        backwards \in BOOLEAN }

\* The providers' data a query of verify meets: the market knows the mints
\* of VerifyMints; `fault` fails the call's first page request or nothing.
VerifyEnv(query, ledger, fault) ==
    [dexRaises |-> NoneStr,
     pairs     |-> IF query.mint_address \in VerifyMints
                   THEN <<Pair("solana", query.mint_address, "BONK", 5)>>
                   ELSE <<>>,
     rpcSupply |-> RpcSupplyOk(7),
     supply    |-> [decimals |-> 0],
     ledger    |-> ledger,
     fault     |-> fault]

\* The amount 2.0 of a mint the market knows or of M3, which it does not;
\* the amount 0.0 of M1 and a negative amount of M2.
VerifyQueries ==
    { HoldingQuery("BONK", FromInt(2), m) : m \in VerifyMints \cup {"M3"} }
    \cup { HoldingQuery("BONK", Zero, "M1"),
           HoldingQuery("BONK", <<-1, 0>>, "M2") }

PageFault == [at |-> 2, resp |-> Timeout]

\* WalletMatcher.verify_with_second_holding(primary, verification), as one
\* step.
VerifyCall ==
    /\ pc = "idle"
    /\ \E primary \in VerifyQueries, verification \in VerifyQueries,
          ledger1 \in VerifyLedgers, ledger2 \in VerifyLedgers,
          faulty \in 0..2 :
          LET ledger == ("M1" :> ledger1) @@ ("M2" :> ledger2)
              env1 == VerifyEnv(primary, ledger,
                                IF faulty = 1 THEN PageFault ELSE NoFault)
              env2 == VerifyEnv(verification, ledger,
                                IF faulty = 2 THEN PageFault ELSE NoFault)
          IN  /\ call' = [op |-> "verify_with_second_holding",
                          primary |-> primary, verification |-> verification,
                          env1 |-> env1, env2 |-> env2]
              /\ outcome' = VerifyWithSecondHolding(config, primary,
                                                    verification, env1, env2)
              /\ pc' = outcome'.status
    /\ UNCHANGED <<config, loop, served, clients>>

NextVerify == VerifyCall \/ Return

SpecVerify == Init /\ [][NextVerify]_vars

Verified == pc = "returned" /\ call.op = "verify_with_second_holding"

\* C4: confirmed_wallets is the sorted, duplicate-free intersection of the
\* owner addresses of the primary candidates and of the verification
\* candidates, and verified holds iff that intersection has one element.
C4_ConfirmedIsTheSortedIntersection ==
    Verified =>
       LET r     == outcome.result
           both  == Addresses(r.primary_candidates)
                    \cap Addresses(r.verification_candidates)
           index == [a \in {"A", "B", "C"} |->
                        CHOOSE i \in 1..3 : AddressOrder[i] = a]
       IN  /\ {r.confirmed_wallets[i] : i \in 1..Len(r.confirmed_wallets)} = both
           /\ Len(r.confirmed_wallets) = Cardinality(both)
           /\ \A i \in 1..(Len(r.confirmed_wallets) - 1) :
                 index[r.confirmed_wallets[i]] < index[r.confirmed_wallets[i + 1]]
           /\ r.verified <=> (Cardinality(both) = 1)

\* C4's case: the primary query matches {A, B}, the verification query
\* {B, C}: B is the one confirmed wallet.
C4_Witness ==
    /\ Verified
    /\ Addresses(outcome.result.primary_candidates) = {"A", "B"}
    /\ Addresses(outcome.result.verification_candidates) = {"B", "C"}
    /\ outcome.result.confirmed_wallets = <<"B">>
    /\ outcome.result.verified

\* C5: with the primary and the verification query swapped, against the
\* same provider data, verify_with_second_holding gives the same
\* confirmed_wallets and the same verified, the two candidate lists
\* exchanged.
C5_VerifyIsCommutative ==
    Verified =>
       LET r       == outcome.result
           swapped == VerifyWithSecondHolding(config, call.verification,
                                              call.primary, call.env2,
                                              call.env1)
       IN  /\ swapped.status = "returned"
           /\ swapped.result.confirmed_wallets = r.confirmed_wallets
           /\ swapped.result.verified = r.verified
           /\ swapped.result.primary_candidates = r.verification_candidates
           /\ swapped.result.verification_candidates = r.primary_candidates

\* C5's case: two wallets are confirmed, and the two candidate lists name
\* them in opposite orders.
C5_Witness ==
    /\ Verified
    /\ call.primary.mint_address # call.verification.mint_address
    /\ Len(outcome.result.confirmed_wallets) = 2
    /\ outcome.result.primary_candidates[1].address
          # outcome.result.verification_candidates[1].address
    /\ Len(outcome.result.primary_candidates) = 2
    /\ Len(outcome.result.verification_candidates) = 2

\* The ledger request that env.fault fails was made (requests is the log of
\* the ledger requests of one find_candidates) and rpc_request raised on it.
FaultRaised(env, requests) ==
    /\ env.fault.at >= 1
    /\ Len(requests) >= env.fault.at
    /\ RpcRequest(env.fault.resp).raised # NoneStr

\* The query resolves to no token, or its target is not positive.
Degenerate(query, env) ==
    \/ ResolveQuery(query, env) = None
    \/ query.token_amount[1] <= 0

\* The ledger requests of a search all name the mint of its query.
SearchOf(requests, query) ==
    \A i \in 1..Len(requests) : requests[i].mint = query.mint_address

\* C29: when either query of verify_with_second_holding resolves to no
\* token or has a target <= 0, both searches still run, the primary one
\* first and the verification one after it, and, no provider request
\* failing, the call returns with no confirmed wallet, verified false and
\* no wallet; and in every result, wallet is set exactly when verified is
\* true and is then the one confirmed address.
C29_DegenerateQueryVerifiesNothing ==
    /\ (pc \in {"returned", "raised"}
           /\ call.op = "verify_with_second_holding"
           /\ (Degenerate(call.primary, call.env1)
                 \/ Degenerate(call.verification, call.env2)))
       => /\ SearchOf(outcome.searches[1], call.primary)
          /\ Len(outcome.searches) = 2
                => SearchOf(outcome.searches[2], call.verification)
          /\ pc = "raised"
                => FaultRaised(IF Len(outcome.searches) = 1
                               THEN call.env1 ELSE call.env2,
                               outcome.searches[Len(outcome.searches)])
          /\ pc = "returned"
                => /\ Len(outcome.searches) = 2
                   /\ outcome.result.primary_query.mint_address
                         = call.primary.mint_address
                   /\ Degenerate(call.verification, call.env2)
                         => outcome.result.verification_candidates = <<>>
                   /\ Degenerate(call.primary, call.env1)
                         => outcome.result.primary_candidates = <<>>
                   /\ outcome.result.confirmed_wallets = <<>>
                   /\ ~outcome.result.verified
                   /\ outcome.result.wallet = NoneStr
    /\ Verified
       => /\ (outcome.result.wallet # NoneStr) <=> outcome.result.verified
          /\ outcome.result.verified
                => outcome.result.confirmed_wallets = <<outcome.result.wallet>>

\* C29's case: the primary query names a mint the market does not know,
\* the verification query matches two owners, and its search ran.
C29_Witness ==
    /\ Verified
    /\ call.primary.mint_address = "M3"
    /\ outcome.searches[1] = <<>>
    /\ Len(outcome.searches[2]) >= 2
    /\ Len(outcome.result.verification_candidates) = 2
    /\ outcome.result.confirmed_wallets = <<>>
    /\ outcome.result.wallet = NoneStr

\* C29's other cases: a target of 0.0 in the verification query after a
\* primary search with candidates; and a verified result with its wallet.
C29_WitnessZeroTarget ==
    /\ Verified
    /\ call.verification.token_amount = Zero
    /\ outcome.result.primary_candidates # <<>>
    /\ Len(outcome.searches[2]) >= 2
    /\ ~outcome.result.verified

C29_WitnessVerified ==
    /\ Verified
    /\ Len(outcome.result.primary_candidates) = 2
    /\ outcome.result.verified
    /\ outcome.result.wallet = "B"

(***************************************************************************)
(* The two operations of the WalletMatcher together (specification         *)
(* SpecMatcher).                                                           *)
(***************************************************************************)
NextMatcher == FindCandidatesCall \/ VerifyCall \/ Return

SpecMatcher == Init /\ [][NextMatcher]_vars

VerifyEnded ==
    pc \in {"returned", "raised"} /\ call.op = "verify_with_second_holding"

\* C11: an error raised by the supply request or by a holder-page request
\* reaches the caller of find_candidates as that same error, and no
\* SearchResult is returned from the pages fetched before it; when either
\* search of verify_with_second_holding raises so, the error reaches its
\* caller and no VerificationResult is returned.
C11_ProviderErrorsPropagate ==
    /\ (Ended /\ FaultRaised(call.env, outcome.requests))
       => /\ pc = "raised"
          /\ outcome.raised = RpcRequest(call.env.fault.resp).raised
          /\ outcome.result = None
    /\ VerifyEnded
       => \A i \in 1..Len(outcome.searches) :
             LET env == IF i = 1 THEN call.env1 ELSE call.env2
             IN  FaultRaised(env, outcome.searches[i])
                 => /\ pc = "raised"
                    /\ outcome.raised = RpcRequest(env.fault.resp).raised
                    /\ outcome.result = None

\* C11's case in find_candidates: the request of the second holder page
\* raised after a full first page was fetched.
C11_Witness ==
    /\ Ended
    /\ pc = "raised"
    /\ Len(outcome.requests) = 3
    /\ call.env.fault.at = 3
    /\ Len(call.env.ledger["M1"]) = 2

\* C11's case in verify_with_second_holding: the second search raised after
\* the first had run to its end.
C11_WitnessVerify ==
    /\ VerifyEnded
    /\ pc = "raised"
    /\ Len(outcome.searches) = 2
    /\ FaultRaised(call.env2, outcome.searches[2])

(***************************************************************************)
(* The TokenResolver (specification SpecResolver): each of its methods is  *)
(* one step, on what the market-data provider and the Solana RPC answer.   *)
(***************************************************************************)
\* The pairs the market-data provider may list.  The tickers asked for are
\* "BONK" and "bonk"; marketCap and fdv also tell the pairs of a mint apart.
ResolverPairs ==
    { PairWithCaps("solana",   "M1", "BONK",  5, 1, 0),
      PairWithCaps("solana",   "M1", "bonk",  3, 2, 0),
      PairWithCaps("solana",   "M1", "Bonk",  5, 3, 0),
      PairWithCaps("solana",   "M2", "BONK",  5, 8, 0),
      PairWithCaps("solana",   "M3", "BONK2", 9, 2, 0),
      PairWithCaps("solana",   "M3", "XBONK", 9, 2, 0),
      PairWithCaps("solana",   "",   "BONK",  9, 2, 0),
      PairWithCaps("ethereum", "M4", "BONK",  9, 2, 0) }

PairLists == SeqsUpTo(ResolverPairs, MaxPairs)

Tickers == {"BONK", "bonk"}

\* market_cap_hint: none, 0.0, a negative one, 2.0.
Hints == {None, Zero, <<-1, 0>>, FromInt(2)}

RpcSupplies == {RpcSupplyOk(7), RpcSupplyFails}

\* What a method of the resolver leaves behind: its value, or its exception.
ReturnedOutcome(value) ==
    [status |-> "returned", raised |-> NoneStr, result |-> value]

ResolverOutcome(value) ==
    IF IsRaised(value)
    THEN [status |-> "raised", raised |-> value.raised, result |-> None]
    ELSE ReturnedOutcome(value)

\* TokenResolver.search_by_ticker(ticker), as one step.
SearchByTickerCall ==
    /\ pc = "idle"
    /\ \E ticker \in Tickers, pairs \in PairLists :
          /\ call' = [op |-> "search_by_ticker", ticker |-> ticker,
                      pairs |-> pairs]
          /\ outcome' = ReturnedOutcome(SearchByTicker(pairs, ticker))
          /\ pc' = outcome'.status
    /\ UNCHANGED <<config, loop, served, clients>>

\* TokenResolver.get_by_mint_address(mint_address), as one step; pairs is
\* the provider's list of the pairs of that mint.
GetByMintAddressCall ==
    /\ pc = "idle"
    /\ \E pairs \in PairLists, rpcSupply \in RpcSupplies :
          /\ call' = [op |-> "get_by_mint_address", pairs |-> pairs,
                      rpcSupply |-> rpcSupply]
          /\ outcome' = ResolverOutcome(GetByMintAddress(pairs, rpcSupply))
          /\ pc' = outcome'.status
    /\ UNCHANGED <<config, loop, served, clients>>

\* TokenResolver.resolve(ticker, market_cap_hint), as one step.
ResolveCall ==
    /\ pc = "idle"
    /\ \E ticker \in Tickers, pairs \in PairLists, hint \in Hints,
          rpcSupply \in RpcSupplies :
          /\ call' = [op |-> "resolve", ticker |-> ticker, pairs |-> pairs,
                      hint |-> hint, rpcSupply |-> rpcSupply]
          /\ outcome' = ResolverOutcome(Resolve(pairs, ticker, hint,
                                                rpcSupply))
          /\ pc' = outcome'.status
    /\ UNCHANGED <<config, loop, served, clients>>

\* The candidates disambiguate_by_market_cap may be given: tokens of
\* distinct mints, told apart by liquidity, market cap and FDV.
CapTokens ==
    { FromDexscreener(PairWithCaps("solana", "M1", "BONK", 9, 8, 0)),
      FromDexscreener(PairWithCaps("solana", "M2", "BONK", 5, 1, 0)),
      FromDexscreener(PairWithCaps("solana", "M3", "BONK", 5, 0, 3)),
      FromDexscreener(PairWithCaps("solana", "M4", "BONK", 3, -1, 2)),
      FromDexscreener(PairWithCaps("solana", "M5", "BONK", 3, 0, 0)),
      FromDexscreener(PairWithCaps("solana", "M6", "BONK", 1, 2, 8)),
      FromDexscreener(PairWithCaps("solana", "M7", "BONK", 1, 0, -1)) }

CandidateLists == SeqsUpTo(CapTokens, MaxCandidates)

\* target_market_cap: negative, 0.0, 2.0, 64.0
MarketCapTargets == {<<-1, 0>>, Zero, FromInt(2), FromInt(64)}

\* tolerance: the default 0.5, 0.0, 4.0, and a negative one.
DisambiguationTolerances ==
    {DisambiguationTolerance, Zero, FromInt(4), <<-1, 0>>}

\* TokenResolver.disambiguate_by_market_cap(candidates, target_market_cap,
\* tolerance), as one step.
DisambiguateCall ==
    /\ pc = "idle"
    /\ \E candidates \in CandidateLists, target \in MarketCapTargets,
          tolerance \in DisambiguationTolerances :
          /\ call' = [op |-> "disambiguate_by_market_cap",
                      candidates |-> candidates, target |-> target,
                      tolerance |-> tolerance]
          /\ outcome' = ResolverOutcome(
                            DisambiguateByMarketCap(candidates, target,
                                                    tolerance))
          /\ pc' = outcome'.status
    /\ UNCHANGED <<config, loop, served, clients>>

NextResolver ==
    \/ SearchByTickerCall
    \/ GetByMintAddressCall
    \/ ResolveCall
    \/ DisambiguateCall
    \/ Return

\* The resolver reads nothing of the Config: one Config stands for all.
InitResolver ==
    /\ Init
    /\ config = [tolerance |-> Zero, max_holder_pages |-> 1]

SpecResolver == InitResolver /\ [][NextResolver]_vars

\* A call of the named method of the resolver has ended.
EndedOp(op) == pc \in {"returned", "raised"} /\ call.op = op

\* The spellings of the tickers of the model in upper, lower and mixed case.
CaseVariants(ticker) ==
    IF ticker \in {"BONK", "bonk", "Bonk"} THEN {"BONK", "bonk", "Bonk"}
    ELSE {ticker}

\* The pairs of a list that match the ticker: on Solana, with a mint
\* address, the symbol equal to the ticker up to case.
Matching(pairs, ticker) ==
    SelectSeq(pairs, LAMBDA p : /\ p.chainId = "solana"
                                /\ p.address # ""
                                /\ p.symbol \in CaseVariants(ticker))

\* The token is the data of one of the pairs, its supply still zero.
FromPairOf(token, pairs) ==
    \E i \in 1..Len(pairs) : token = FromDexscreener(pairs[i])

\* C12: when the supply lookup of the enrichment fails and the market-data
\* lookup yields a token, get_by_mint_address and resolve return normally,
\* and what they return is that token with its supply at the default zero.
C12_EnrichmentFailureIsSwallowed ==
    /\ (EndedOp("get_by_mint_address") /\ call.rpcSupply.raised
        /\ call.pairs # <<>>)
       => /\ pc = "returned"
          /\ outcome.result # None
          /\ outcome.result.supply = 0
          /\ FromPairOf(outcome.result, call.pairs)
    /\ (EndedOp("resolve") /\ call.rpcSupply.raised
        /\ Matching(call.pairs, call.ticker) # <<>>)
       => /\ pc = "returned"
          /\ outcome.result # None
          /\ outcome.result.supply = 0
          /\ FromPairOf(outcome.result, Matching(call.pairs, call.ticker))

\* C12's case: resolve had two candidates and a hint to choose by, and the
\* supply lookup for the chosen token failed.
C12_Witness ==
    /\ EndedOp("resolve")
    /\ call.rpcSupply.raised
    /\ call.hint = FromInt(2)
    /\ Len(SearchByTicker(call.pairs, call.ticker)) = 2
    /\ pc = "returned"
    /\ outcome.result.supply = 0

\* The mints of a list of pairs, and of a list of tokens.
MintsOfPairs(pairs) == {pairs[i].address : i \in 1..Len(pairs)}

MintsOf(tokens) == {tokens[i].mint_address : i \in 1..Len(tokens)}

\* C13: every token search_by_ticker returns has a symbol equal to the
\* ticker up to case, none has a symbol that only contains or extends the
\* ticker, and the mints returned are exactly the mints with a matching
\* pair that has a mint address, each once.
C13_FilterIsExactUpToCase ==
    EndedOp("search_by_ticker") =>
       /\ \A i \in 1..Len(outcome.result) :
             /\ outcome.result[i].symbol \in CaseVariants(call.ticker)
             /\ outcome.result[i].symbol \notin {"BONK2", "XBONK"}
       /\ MintsOf(outcome.result)
             = MintsOfPairs(Matching(call.pairs, call.ticker))
       /\ Len(outcome.result) = Cardinality(MintsOf(outcome.result))

\* C13's case: the provider lists a pair of another case, a pair whose
\* symbol extends the ticker, and two pairs of one mint.
C13_Witness ==
    /\ EndedOp("search_by_ticker")
    /\ call.ticker = "BONK"
    /\ \E i, j, k \in 1..Len(call.pairs) :
          /\ call.pairs[i].symbol = "bonk"
          /\ call.pairs[j].symbol = "BONK2"
          /\ call.pairs[k].symbol = "BONK"
          /\ call.pairs[k].address = call.pairs[i].address
          /\ call.pairs[k].chainId = "solana"
    /\ Len(outcome.result) = 1
    /\ outcome.result[1].mint_address = "M1"

\* The matching pairs of a mint, in the order of the provider's list.
PairsOfMint(pairs, ticker, mint) ==
    SelectSeq(Matching(pairs, ticker), LAMBDA p : p.address = mint)

\* The first pair of a non-empty list that no pair of the list exceeds in
\* liquidity.
FirstMostLiquid(pairs) ==
    pairs[CHOOSE k \in 1..Len(pairs) :
             /\ \A i \in 1..Len(pairs) : pairs[i].liquidity <= pairs[k].liquidity
             /\ \A i \in 1..(k - 1) : pairs[i].liquidity < pairs[k].liquidity]

\* C14: the token search_by_ticker returns for a mint carries the data of
\* the most liquid of the mint's matching pairs, the first of them in the
\* provider's list when several are equally liquid, in whatever order the
\* pairs arrive.
C14_MostLiquidPairIsKept ==
    EndedOp("search_by_ticker") =>
       \A i \in 1..Len(outcome.result) :
          outcome.result[i]
             = FromDexscreener(
                   FirstMostLiquid(PairsOfMint(call.pairs, call.ticker,
                                               outcome.result[i].mint_address)))

\* C14's case: a mint has a less liquid pair, then two equally liquid
\* ones; the data kept is that of the first of the two.
C14_Witness ==
    /\ EndedOp("search_by_ticker")
    /\ Len(call.pairs) = 3
    /\ call.pairs[1].liquidity = 3
    /\ call.pairs[2].liquidity = 5
    /\ call.pairs[3].liquidity = 5
    /\ call.pairs[2] # call.pairs[3]
    /\ MintsOfPairs(call.pairs) = {"M1"}
    /\ outcome.result = <<FromDexscreener(call.pairs[2])>>

\* The place in the provider's list of the first matching pair of a mint.
FirstSeen(pairs, ticker, mint) ==
    CHOOSE k \in 1..Len(pairs) :
       /\ pairs[k].address = mint
       /\ <<pairs[k]>> = Matching(<<pairs[k]>>, ticker)
       /\ \A i \in 1..(k - 1) :
             pairs[i].address # mint \/ Matching(<<pairs[i]>>, ticker) = <<>>

\* C15: the list search_by_ticker returns is in descending order of
\* liquidity, and of two equally liquid tokens the one whose mint was seen
\* first in the provider's list comes first.
C15_SortedByLiquidityStable ==
    EndedOp("search_by_ticker") =>
       \A i, j \in 1..Len(outcome.result) :
          i < j =>
             /\ outcome.result[i].liquidity_usd >= outcome.result[j].liquidity_usd
             /\ outcome.result[i].liquidity_usd = outcome.result[j].liquidity_usd
                => FirstSeen(call.pairs, call.ticker,
                             outcome.result[i].mint_address)
                   < FirstSeen(call.pairs, call.ticker,
                               outcome.result[j].mint_address)

\* C15's case: the mint seen second is raised by a later pair to the
\* liquidity of the mint seen first, and stays behind it.
C15_Witness ==
    /\ EndedOp("search_by_ticker")
    /\ Len(call.pairs) = 3
    /\ call.pairs[1].address = "M2"
    /\ call.pairs[2].address = "M1"
    /\ call.pairs[2].liquidity = 3
    /\ call.pairs[3].address = "M1"
    /\ Len(outcome.result) = 2
    /\ outcome.result[1].mint_address = "M2"
    /\ outcome.result[1].liquidity_usd = outcome.result[2].liquidity_usd

\* C15's other case: the more liquid mint is seen last and comes first.
C15_WitnessReordered ==
    /\ EndedOp("search_by_ticker")
    /\ Len(outcome.result) = 2
    /\ FirstSeen(call.pairs, call.ticker, outcome.result[1].mint_address)
          > FirstSeen(call.pairs, call.ticker, outcome.result[2].mint_address)

\* What resolve left behind is the token, enriched or not.
ReturnedToken(token) ==
    /\ pc = "returned"
    /\ outcome.result # None
    /\ [outcome.result EXCEPT !.supply = 0] = token

\* What resolve left behind is what disambiguate_by_market_cap gives for
\* the candidates and the hint: its token, or its exception.
ReturnedDisambiguated(candidates, hint) ==
    IF IsRaised(DisambiguateByMarketCap(candidates, hint,
                                        DisambiguationTolerance))
    THEN pc = "raised"
    ELSE ReturnedToken(DisambiguateByMarketCap(candidates, hint,
                                               DisambiguationTolerance))

\* resolve on the candidates, with `supplied` telling whether the hint
\* counts as supplied.
ResolvePolicy(candidates, hint, supplied) ==
    /\ (pc = "returned" /\ outcome.result = None) <=> candidates = <<>>
    /\ Len(candidates) = 1 => ReturnedToken(candidates[1])
    /\ (Len(candidates) > 1 /\ supplied)
       => ReturnedDisambiguated(candidates, hint)
    /\ (Len(candidates) > 1 /\ ~supplied) => ReturnedToken(candidates[1])

C16_WitnessZeroHint ==
    /\ EndedOp("resolve")
    /\ call.hint = Zero
    /\ Len(SearchByTicker(call.pairs, call.ticker)) = 2
    /\ SearchByTicker(call.pairs, call.ticker)[1].market_cap > 0
    /\ pc = "returned"

C16_WitnessAbsent ==
    /\ EndedOp("resolve")
    /\ call.pairs # <<>>
    /\ pc = "returned"
    /\ outcome.result = None

\* The integer a float of the model with a non-negative exponent stands for.
IntOf(x) == x[1] * Pow(2, x[2])

\* The value the deviation of a candidate is taken of: its market cap, or
\* its FDV when the market cap is not positive.
CapOrFdv(token) ==
    IF token.market_cap > 0 THEN token.market_cap ELSE token.fdv

\* The candidates that have a positive market cap or a positive FDV.
Valued(candidates) == SelectSeq(candidates, LAMBDA c : CapOrFdv(c) > 0)

\* |a - T| / T <= |b - T| / T and |a - T| / T <= tolerance in exact
\* arithmetic, for a target T other than zero.
DeviationLe(a, b, T) ==
    IF T > 0 THEN Abs(a - T) <= Abs(b - T) ELSE Abs(a - T) >= Abs(b - T)

DeviationInTolerance(a, T, tolerance) ==
    LET lo == Min(0, tolerance[2])
    IN  (IF T > 0 THEN Abs(a - T) ELSE 0 - Abs(a - T)) * Pow(2, 0 - lo)
           <= tolerance[1] * Pow(2, tolerance[2] - lo) * Abs(T)

\* The candidates of minimal deviation among the valued ones.
Closest(candidates, T) ==
    {c \in {Valued(candidates)[i] : i \in 1..Len(Valued(candidates))} :
        \A i \in 1..Len(Valued(candidates)) :
           DeviationLe(CapOrFdv(c), CapOrFdv(Valued(candidates)[i]), T)}

\* C17: for two or more candidates, disambiguate_by_market_cap returns a
\* candidate of minimal relative deviation |value - target| / target when
\* that deviation is within the tolerance, and the first candidate
\* otherwise; the value is the market cap, or the FDV when the market cap is
\* not positive, and only candidates with neither positive are left out.
C17_ClosestWithinToleranceOrFirst ==
    (EndedOp("disambiguate_by_market_cap") /\ Len(call.candidates) >= 2)
    => /\ pc = "returned"
       /\ IntOf(call.target) # 0
          => IF \E c \in Closest(call.candidates, IntOf(call.target)) :
                   DeviationInTolerance(CapOrFdv(c), IntOf(call.target),
                                        call.tolerance)
             THEN outcome.result \in Closest(call.candidates,
                                             IntOf(call.target))
             ELSE outcome.result = call.candidates[1]

\* C18: called with exactly one candidate, disambiguate_by_market_cap
\* returns that candidate and does not raise, whatever the hint (zero,
\* negative, far from the candidate's market cap) and the tolerance.
C18_SingleCandidateIsReturned ==
    (EndedOp("disambiguate_by_market_cap") /\ Len(call.candidates) = 1)
    => /\ pc = "returned"
       /\ outcome.result = call.candidates[1]

\* C18's case: one candidate with a positive market cap, a hint of zero
\* and a negative tolerance.
C18_Witness ==
    /\ EndedOp("disambiguate_by_market_cap")
    /\ Len(call.candidates) = 1
    /\ call.candidates[1].market_cap > 0
    /\ call.target = Zero
    /\ call.tolerance[1] < 0
    /\ pc = "returned"

(***************************************************************************)
(* A request through find_wallet or verify_wallet (specification           *)
(* SpecRequest): the matcher is made, its searches run one after the       *)
(* other, and the `finally` closes the matcher.  Clients are named after   *)
(* the object that holds them:                                             *)
(*   "dexscreener" DexScreenerClient._client, made on the first request    *)
(*   "helius"      HeliusClient._client, the same for the Helius REST API  *)
(*   "helius_rpc"  the client rpc_request opens for one request            *)
(*   "solana_rpc"  the client SolanaRPCClient._request opens likewise      *)
(***************************************************************************)
\* BaseAPIClient.client: the httpx.Client is made on first use and kept.
LazyClient(open, name) == open \cup {name}

\* `with httpx.Client(...) as client:` around one request: the client is
\* open inside the block and closed when the block is left, by return or
\* by exception.
ScopedClient(open, name) == (open \cup {name}) \ {name}

\* BaseAPIClient.close
CloseClient(open, name) == open \ {name}

\* A close of the resolver that closes its RPC client only.
ResolverCloseRpcOnly(open) == CloseClient(open, "solana_rpc")

\* TokenResolver.close
ResolverClose(open) == CloseClient(open, "dexscreener")

\* WalletMatcher.close; made holds the parts of the matcher that were made
\* ("resolver", "helius").
HeliusClose(open, made) ==
    IF "helius" \in made THEN CloseClient(open, "helius") ELSE open

MatcherClose(open, made) ==
    HeliusClose(IF "resolver" \in made THEN ResolverClose(open) ELSE open,
                made)

\* The clients open after a find_candidates that left `result` behind: the
\* resolver asked DexScreener; when a token was found (the supply request
\* is the first thing that follows), the enrichment and every ledger
\* request ran in a client of their own.
SearchClients(open, result) ==
    IF result.requests = <<>>
    THEN LazyClient(open, "dexscreener")
    ELSE ScopedClient(
             ScopedClient(LazyClient(open, "dexscreener"), "solana_rpc"),
             "helius_rpc")

\* The parts of the matcher made by that find_candidates.
SearchMade(made, result) ==
    made \cup {"resolver"}
         \cup (IF result.requests = <<>> THEN {} ELSE {"helius"})

\* The locals of the request after a search that left `result` behind.
AfterSearch(locals, result) ==
    [results |-> Append(locals.results, result),
     raised  |-> result.raised,
     made    |-> SearchMade(locals.made, result),
     opened  |-> locals.opened \cup {"dexscreener"}
                 \cup (IF result.requests = <<>> THEN {}
                       ELSE {"solana_rpc", "helius_rpc"})]

\* What the request leaves behind once its searches are over.
RequestOutcome(op, locals) ==
    IF locals.raised # NoneStr
    THEN [status |-> "raised", raised |-> locals.raised, result |-> None]
    ELSE IF op = "find_wallet"
    THEN [status |-> "returned", raised |-> NoneStr,
          result |-> locals.results[1].result]
    ELSE Intersect(locals.results[1], locals.results[2])

\* The providers' data a request meets: one ledger, every market and fault.
RequestEnvs ==
    {e \in Envs : /\ e.supply = [decimals |-> 0]
                  /\ e.ledger["M1"] = <<[owner |-> "A", amount |-> 2],
                                        [owner |-> "B", amount |-> 2]>>}

\* find_wallet(ticker, token_amount, config) up to its `try`.
FindWalletCall ==
    /\ pc = "idle"
    /\ \E amount \in Targets, env \in RequestEnvs :
          call' = [op |-> "find_wallet",
                   queries |-> <<HoldingQuery("BONK", amount, NoneStr)>>,
                   envs |-> <<env>>]
    /\ loop' = [results |-> <<>>, raised |-> NoneStr, made |-> {},
                opened |-> {}]
    /\ pc' = "search"
    /\ UNCHANGED <<config, outcome, served, clients>>

\* verify_wallet(primary, verification, config) up to its `try`.
VerifyWalletCall ==
    /\ pc = "idle"
    /\ \E env1 \in RequestEnvs, env2 \in RequestEnvs :
          call' = [op |-> "verify_wallet",
                   queries |-> <<HoldingQuery("BONK", FromInt(2), NoneStr),
                                 HoldingQuery("bonk", FromInt(2), NoneStr)>>,
                   envs |-> <<env1, env2>>]
    /\ loop' = [results |-> <<>>, raised |-> NoneStr, made |-> {},
                opened |-> {}]
    /\ pc' = "search"
    /\ UNCHANGED <<config, outcome, served, clients>>

\* The next find_candidates of the request.
SearchStep ==
    /\ pc = "search"
    /\ loop' = AfterSearch(
                   loop,
                   FindCandidates(config,
                                  call.queries[Len(loop.results) + 1],
                                  call.envs[Len(loop.results) + 1]))
    /\ clients' = SearchClients(clients, loop'.results[Len(loop'.results)])
    /\ pc' = IF loop'.raised # NoneStr
                \/ Len(loop'.results) = Len(call.queries)
             THEN "closing" ELSE "search"
    /\ UNCHANGED <<config, call, outcome, served>>

\* `finally: matcher.close()`, then the return or the exception.
CloseStep ==
    /\ pc = "closing"
    /\ clients' = MatcherClose(clients, loop.made)
    /\ outcome' = RequestOutcome(call.op, loop)
    /\ pc' = outcome'.status
    /\ UNCHANGED <<config, call, loop, served>>

NextRequest ==
    \/ FindWalletCall
    \/ VerifyWalletCall
    \/ SearchStep
    \/ CloseStep
    \/ Return

SpecRequest == Init /\ [][NextRequest]_vars

RequestEnded ==
    pc \in {"returned", "raised"} /\ call.op \in {"find_wallet", "verify_wallet"}

\* C22: when a request through find_wallet or verify_wallet has returned or
\* raised, at whatever step, no HTTP client that the request opened is
\* still open.
C22_ClientsAreReleased ==
    RequestEnded => clients = {}

\* C22's case: the request raised at a holder page, after the DexScreener
\* client, an RPC client and ledger clients had been opened.
C22_Witness ==
    /\ RequestEnded
    /\ pc = "raised"
    /\ loop.opened = {"dexscreener", "solana_rpc", "helius_rpc"}
    /\ Len(loop.results[Len(loop.results)].requests) = 3
    /\ clients = {}

\* C22's other cases: a request that returned, and a client open while the
\* `finally` is still to run.
C22_WitnessReturned ==
    /\ RequestEnded
    /\ pc = "returned"
    /\ call.op = "verify_wallet"
    /\ "dexscreener" \in loop.opened

C22_WitnessOpen ==
    /\ pc = "closing"
    /\ clients = {"dexscreener"}

(***************************************************************************)
(* api/base.py: BaseAPIClient._request, one attempt at a time.             *)
(***************************************************************************)
\* The largest max_retries a client of the model is made with.
MaxRetriesTried == 3

\* The values of retry_delay the clients of the model are made with, in
\* seconds (1.0 is the default); retry_delay * 2 ** attempt is exact.
RetryDelays == {1, 3}

\* An httpx.Response: its status code, what response.json() gives (a dict
\* with its "message" and "error" entries and its str(), a list, or a
\* failure to decode) and response.text.
HttpResponse(status, body, text) ==
    [kind |-> "response", status |-> status, body |-> body, text |-> text]

JsonDict(message, error, str) ==
    [kind |-> "dict", message |-> message, error |-> error, str |-> str]

JsonList == [kind |-> "list", message |-> NoneStr, error |-> NoneStr, str |-> "[]"]

NotJson == [kind |-> "not_json", message |-> NoneStr, error |-> NoneStr, str |-> ""]

\* client.request raising httpx.TimeoutException or another
\* httpx.RequestError instead of giving a response.
TimeoutException == [kind |-> "timeout", status |-> 0, body |-> NotJson, text |-> ""]

ConnectError == [kind |-> "connect", status |-> 0, body |-> NotJson, text |-> "refused"]

RateLimitError(message) ==
    [type |-> "RateLimitError", message |-> message, status_code |-> None]

APIError(message, status_code) ==
    [type |-> "APIError", message |-> message, status_code |-> status_code]

\* f"HTTP {response.status_code}" for the status codes of the model.
HttpStatusText(status) ==
    CASE status = 302 -> "HTTP 302"
      [] status = 404 -> "HTTP 404"
      [] status = 500 -> "HTTP 500"
      [] status = 503 -> "HTTP 503"
      [] OTHER -> "HTTP"

\* The message _handle_response gives the APIError of an error response.
ErrorMessage(response) ==
    IF response.body.kind = "dict"
    THEN IF response.body.message # NoneStr THEN response.body.message
         ELSE IF response.body.error # NoneStr THEN response.body.error
         ELSE response.body.str
    ELSE IF response.text # "" THEN response.text
    ELSE HttpStatusText(response.status)

\* A _handle_response whose APIError does not keep the status code.
HandleResponseNoStatus(response) ==
    IF response.status = 429
    THEN [raised |-> RateLimitError("Rate limit exceeded"), value |-> None]
    ELSE IF response.status >= 400
    THEN [raised |-> APIError(ErrorMessage(response), None), value |-> None]
    ELSE [raised |-> None,
          value |-> IF response.body.kind = "not_json"
                    THEN [raw |-> response.text] ELSE response.body]

\* BaseAPIClient._handle_response: [raised, value].
HandleResponse(response) ==
    IF response.status = 429
    THEN [raised |-> RateLimitError("Rate limit exceeded"), value |-> None]
    ELSE IF response.status >= 400
    THEN [raised |-> APIError(ErrorMessage(response), <<response.status>>),
          value |-> None]
    ELSE [raised |-> None,
          value |-> IF response.body.kind = "not_json"
                    THEN [raw |-> response.text] ELSE response.body]

\* What follows the body of the for loop: the next attempt, or the raise
\* after the loop once range(max_retries) is used up.
AfterAttempt(locals, max_retries) ==
    IF locals.attempt < max_retries THEN locals
    ELSE [locals EXCEPT
            !.status = "raised",
            !.raised = IF locals.last_exception # None
                       THEN locals.last_exception
                       ELSE APIError("Request failed after retries", None)]

\* The locals of _request before the first attempt.
RequestInit(max_retries) ==
    AfterAttempt([status |-> "running", attempt |-> 0,
                  last_exception |-> None, waits |-> <<>>,
                  raised |-> None, value |-> None], max_retries)

\* The except clause of a failed attempt: the sleep and last_exception.
Retry(locals, wait_time, exception) ==
    [locals EXCEPT !.attempt = locals.attempt + 1,
                   !.waits = Append(locals.waits, wait_time),
                   !.last_exception = exception]

\* An except RateLimitError clause that sleeps retry_delay, as the other
\* clauses do.
OnRateLimitFixedDelay(locals, retry_delay) ==
    Retry(locals, retry_delay,
          RateLimitError("Rate limit exceeded after retries"))

\* except RateLimitError: exponential backoff.
OnRateLimit(locals, retry_delay) ==
    Retry(locals, retry_delay * Pow(2, locals.attempt),
          RateLimitError("Rate limit exceeded after retries"))

\* An except clause for transport failures that backs off as the rate
\* limit clause does.
OnTransportErrorBackoff(locals, retry_delay, resp) ==
    Retry(locals, retry_delay * Pow(2, locals.attempt),
          IF resp.kind = "timeout" THEN APIError("Request timed out", None)
          ELSE APIError("Request failed: " \o resp.text, None))

\* except httpx.TimeoutException / except httpx.RequestError.
OnTransportError(locals, retry_delay, resp) ==
    Retry(locals, retry_delay,
          IF resp.kind = "timeout" THEN APIError("Request timed out", None)
          ELSE APIError("Request failed: " \o resp.text, None))

\* The try body once the response is there: return, raise the APIError of
\* _handle_response (no clause catches it), or the rate limit clause.
OnResponse(locals, retry_delay, handled) ==
    IF handled.raised = None
    THEN [locals EXCEPT !.status = "returned", !.value = handled.value]
    ELSE IF handled.raised.type = "RateLimitError"
    THEN OnRateLimit(locals, retry_delay)
    ELSE [locals EXCEPT !.status = "raised", !.raised = handled.raised]

\* One iteration of the for loop on what client.request gave.
Attempt(locals, retry_delay, resp) ==
    IF resp.kind = "response"
    THEN OnResponse(locals, retry_delay, HandleResponse(resp))
    ELSE OnTransportError(locals, retry_delay, resp)

\* The iteration and what follows it.
RequestStep(locals, max_retries, retry_delay, resp) ==
    AfterAttempt(Attempt(locals, retry_delay, resp), max_retries)

\* What client.request can give to an attempt.
HttpResponses ==
    { HttpResponse(200, JsonDict(NoneStr, NoneStr, "{'pairs': []}"), "{...}"),
      HttpResponse(200, NotJson, "ok"),
      HttpResponse(302, NotJson, ""),
      HttpResponse(302, JsonDict("moved", NoneStr, "{'message': 'moved'}"), "{...}"),
      HttpResponse(429, NotJson, "slow down"),
      HttpResponse(404, JsonDict("no such pair", "not_found", "{...}"), "{...}"),
      HttpResponse(500, JsonDict(NoneStr, "internal", "{'error': 'internal'}"), "{...}"),
      HttpResponse(500, JsonDict(NoneStr, NoneStr, "{'detail': 'x'}"), "{...}"),
      HttpResponse(503, JsonList, "[]"),
      HttpResponse(503, NotJson, ""),
      TimeoutException,
      ConnectError }

\* BaseAPIClient._request(method, endpoint) on a client made with
\* max_retries and retry_delay.
RequestCall ==
    /\ pc = "idle"
    /\ \E max_retries \in 0..MaxRetriesTried, retry_delay \in RetryDelays :
          /\ call' = [op |-> "_request", max_retries |-> max_retries,
                      retry_delay |-> retry_delay]
          /\ loop' = RequestInit(max_retries)
          /\ pc' = loop'.status
    /\ served' = <<>>
    /\ UNCHANGED <<config, outcome, clients>>

\* One attempt: self.client.request(...) and what follows from it.
AttemptStep ==
    /\ pc = "running"
    /\ call.op = "_request"
    /\ \E resp \in HttpResponses :
          /\ loop' = RequestStep(loop, call.max_retries, call.retry_delay, resp)
          /\ served' = Append(served, resp)
          /\ pc' = loop'.status
    /\ clients' = LazyClient(clients, "base")
    /\ UNCHANGED <<config, call, outcome>>

NextRetry == RequestCall \/ AttemptStep \/ Return

InitRetry ==
    /\ Init
    /\ config = [tolerance |-> Zero, max_holder_pages |-> 1]

\* The attempts follow one another and time.sleep returns.
SpecRetry == InitRetry /\ [][NextRetry]_vars /\ WF_vars(AttemptStep)

\* _request is in its loop, or has ended.
Requesting == pc = "running" /\ call.op = "_request"

RetryEnded == pc \in {"returned", "raised"} /\ call.op = "_request"

RateLimit(resp) == resp.kind = "response" /\ resp.status = 429

TransportFailure(resp) == resp.kind \in {"timeout", "connect"}

Success(resp) ==
    resp.kind = "response" /\ resp.status >= 200 /\ resp.status < 300

\* Every attempt made so far was answered with 429.
AllRateLimited == \A i \in 1..Len(served) : RateLimit(served[i])

\* What the retry loop keeps at every point of a request.
RateLimitBackoff ==
    (Requesting \/ RetryEnded) =>
       /\ Len(served) <= call.max_retries
       /\ Len(loop.waits) <= Len(served)
       /\ AllRateLimited =>
             /\ Len(loop.waits) = Len(served)
             /\ \A k \in 1..Len(served) :
                   loop.waits[k] = call.retry_delay * Pow(2, k - 1)
             /\ pc # "returned"
             /\ pc = "running" => Len(served) < call.max_retries
             /\ (pc = "raised" /\ served # <<>>) =>
                   /\ Len(served) = call.max_retries
                   /\ loop.raised.type = "RateLimitError"
       /\ \A i \in 1..Len(served) :
             Success(served[i]) =>
                /\ i = Len(served)
                /\ pc = "returned"
                /\ loop.value = IF served[i].body.kind = "not_json"
                                THEN [raw |-> served[i].text]
                                ELSE served[i].body

\* C23: a request answered with 429 on every attempt is attempted exactly
\* max_retries times, sleeps retry_delay * 2^k after attempt k (k from 0) and
\* then ends by raising RateLimitError; a 2xx response on any attempt is
\* returned at once, with no attempt after it; and the request always ends.
C23_RateLimitBackoffThenRaise ==
    /\ []RateLimitBackoff
    /\ (Requesting ~> RetryEnded)

C23_Witness ==
    /\ RetryEnded
    /\ pc = "raised"
    /\ call.retry_delay = 3
    /\ Len(served) = 3
    /\ AllRateLimited
    /\ loop.waits = <<3, 6, 12>>
    /\ loop.raised = RateLimitError("Rate limit exceeded after retries")

C23_WitnessReturned ==
    /\ RetryEnded
    /\ pc = "returned"
    /\ Len(served) = 2
    /\ RateLimit(served[1])
    /\ loop.value = [raw |-> "ok"]
    /\ call.max_retries = 3

\* C24: an attempt that ends in a timeout or a connection failure is
\* followed by a sleep of retry_delay, whatever the attempt number, and by
\* another attempt while fewer than max_retries were made; when the last of
\* the max_retries attempts fails so, the APIError of that attempt is raised.
C24_TransportErrorsRetriedAtFixedDelay ==
    (Requesting \/ RetryEnded) =>
       /\ Len(served) <= call.max_retries
       /\ \A k \in 1..Len(served) :
             TransportFailure(served[k]) =>
                /\ k <= Len(loop.waits)
                /\ loop.waits[k] = call.retry_delay
       /\ (served # <<>> /\ TransportFailure(served[Len(served)])) =>
             /\ pc # "returned"
             /\ pc = "running" => Len(served) < call.max_retries
             /\ pc = "raised" =>
                   /\ Len(served) = call.max_retries
                   /\ loop.raised.type = "APIError"
                   /\ loop.raised.status_code = None
                   /\ loop.raised.message =
                         IF served[Len(served)].kind = "timeout"
                         THEN "Request timed out"
                         ELSE "Request failed: " \o served[Len(served)].text

C24_Witness ==
    /\ RetryEnded
    /\ pc = "raised"
    /\ call.retry_delay = 3
    /\ Len(served) = 3
    /\ served[1] = TimeoutException
    /\ RateLimit(served[2])
    /\ served[3] = ConnectError
    /\ loop.waits = <<3, 6, 3>>
    /\ loop.raised = APIError("Request failed: refused", None)

C24_WitnessTimeout ==
    /\ RetryEnded
    /\ Len(served) = 2
    /\ served[1] = ConnectError
    /\ served[2] = TimeoutException
    /\ loop.raised = APIError("Request timed out", None)

\* The response is surfaced at once as an APIError with its message and its
\* status code: it is the last response of the request.
SurfacedAsAPIError(i) ==
    /\ i = Len(served)
    /\ pc = "raised"
    /\ loop.raised.type = "APIError"
    /\ loop.raised.status_code = <<served[i].status>>
    /\ (served[i].body.kind = "dict" /\ served[i].body.message # NoneStr) =>
          loop.raised.message = served[i].body.message
    /\ (served[i].body.kind = "dict" /\ served[i].body.message = NoneStr
          /\ served[i].body.error # NoneStr) =>
          loop.raised.message = served[i].body.error

\* C25 as stated: every response outside 200..299 other than a 429 is not
\* retried and is raised at once as an APIError with the upstream message
\* and the status code of the response.
C25_Non2xxIsUpstreamError ==
    (Requesting \/ RetryEnded) =>
       \A i \in 1..Len(served) :
          (served[i].kind = "response" /\ ~Success(served[i])
             /\ ~RateLimit(served[i])) => SurfacedAsAPIError(i)

\* C25, amended: every response with a status of 400 or more other than a
\* 429 is not retried and is raised at once as an APIError with the upstream
\* message and the status code of the response.
C25_ErrorStatusIsUpstreamError ==
    (Requesting \/ RetryEnded) =>
       \A i \in 1..Len(served) :
          (served[i].kind = "response" /\ served[i].status >= 400
             /\ ~RateLimit(served[i])) => SurfacedAsAPIError(i)

C25_Witness ==
    /\ RetryEnded
    /\ Len(served) = 2
    /\ served[1] = TimeoutException
    /\ served[2].status = 500
    /\ call.max_retries = 3
    /\ loop.raised = APIError("internal", <<500>>)

\* A 302 is returned as the result of the request.
C25_WitnessRedirect ==
    /\ RetryEnded
    /\ pc = "returned"
    /\ served[Len(served)].status = 302
    /\ loop.value = [raw |-> ""]

====
